---- MODULE Spec2Model ----
(***************************************************************************)
(* Garbage Cleaner Pro (src/garbage_cleaner_pro.py): the rule-driven       *)
(* cleanup engine, its cooperative stop/pause signals, the host            *)
(* application's worker threads and the daily scheduler.                   *)
(*                                                                         *)
(* Filesystem universe: one base directory Base holding the files          *)
(* 1..NFiles and the sub-directories SubDir and EmptyDir.  An entry is an  *)
(* integer: a positive number is a file, 0 and the negatives are           *)
(* directories.  Traversal order (rglob, os.walk) is a fixed order of the  *)
(* entries.                                                                *)
(***************************************************************************)
EXTENDS Integers, Sequences, FiniteSets, TLC

\* ---------------------------------------------------------------- bounds
NFiles == 4
ActFiles == 3
MaxCap == 2
MaxThreads == 2
AppFiles == 2
MaxJitter == 1
MaxClock == 9100
MaxFired == 2
MaxRules == 2
MaxTasks == 2

\* ------------------------------------------------------ filesystem universe
Base == 0
SubDir == 0 - 1
EmptyDir == 0 - 2

FileIds == 1..NFiles
AllDirs == {Base, SubDir, EmptyDir}

\* the directory that holds file f: every third file lives in SubDir
FDir(f) == IF f % 3 = 0 THEN SubDir ELSE Base
\* the suffix of file f
FExt(f) == IF f % 2 = 1 THEN "tmp" ELSE "log"
\* st_size of file f
FSize(f) == f
DirParent(d) == Base

VARIABLES
    cfg,            \* AppConfig
    send2trash,     \* TRUE iff the send2trash module was imported
    rules,          \* CleanerApp.rules
    scan_results,   \* CleanerApp.scan_results
    stop,           \* CleanerEngine._stop
    pause,          \* CleanerEngine._pause
    threads,        \* the worker threads started so far, each with its locals
    files,          \* the files that exist at their original path
    dirs,           \* the directories that exist
    locked,         \* files on which unlink / move / send2trash raise
                    \* PermissionError, directories on which rmdir does
    quarantine,     \* files under QUARANTINE_DIR: [rule, dir, f, ext]
    qdirs,          \* directories made under QUARANTINE_DIR: <<rule name, dir>>
    trash,          \* files handed to send2trash
    log,            \* the messages given to the log callback by the engine
    tasks,          \* SimpleScheduler.tasks
    h,              \* TRUE iff SimpleScheduler._h holds a pending timer
    now,            \* the wall clock, in seconds since midnight of day 0
    fired,          \* the _run_action calls made so far: [i, at]
    rules_file,     \* clean_rules.json: <<>> when absent, else <<document>>
    schedule_file,  \* schedules.json: <<>> when absent, else <<document>>
    ui,             \* the last message box or toast shown to the user
    caches,         \* the pip and npm cache directories that exist
    timers,         \* the handles of the _tick callbacks pending in Tk
    hid,            \* the handle held by SimpleScheduler._h, 0 for None
    after_handles,  \* ShutdownMixin._after_handles
    is_shutting_down, \* ShutdownMixin._is_shutting_down
    close_pc,       \* where the main thread is in on_close: idle, join, closed
    joined,         \* the join calls on_close has made: "ended" or "timeout"
    dialog          \* the _tick call waiting in an open message box:
                    \* <<>> when none, else <<[i, at]>>, its entry and its time

\* the host application's state outside engine, workers and scheduler loop
hostvars == <<rules_file, schedule_file, ui, caches, timers, hid,
              after_handles, is_shutting_down, close_pc, joined, dialog>>

vars == <<cfg, send2trash, rules, scan_results, stop, pause, threads,
          files, dirs, locked, quarantine, qdirs, trash, log,
          tasks, h, now, fired, hostvars>>

\* what the engine, the workers and the Scan / Clean / Pause / Cancel
\* buttons leave alone
schedvars == <<tasks, h, now, fired, hostvars>>

fsvars == <<files, dirs, quarantine, qdirs, trash>>

\* ------------------------------------------------------------ data model
\* no message shown yet
NoMessage == [msg |-> "", n |-> 0]

\* the host state of a run without documents on disk, cache directories
\* or close request, the scheduler's timer not counted
HostInit ==
    /\ rules_file = <<>>
    /\ schedule_file = <<>>
    /\ ui = NoMessage
    /\ caches = {}
    /\ timers = {}
    /\ hid = 0
    /\ after_handles = {}
    /\ is_shutting_down = FALSE
    /\ close_pc = "idle"
    /\ joined = <<>>
    /\ dialog = <<>>

ActionType == {"quarantine", "delete", "recycle"}

PathRule(name, path, patterns, age, rm, action, enabled) ==
    [name |-> name, path |-> path, patterns |-> patterns, min_age_days |-> age,
     remove_empty_dirs |-> rm, action |-> action, enabled |-> enabled]

AppConfig(dry, qe, fl, perRule, total, hro) ==
    [dry_run |-> dry, quarantine_enabled |-> qe, follow_symlinks |-> fl,
     max_delete_per_rule |-> perRule, max_total_delete |-> total,
     hard_recycle_only |-> hro]

ScanResult(rule, fs, size) == [rule |-> rule, files |-> fs, total_size |-> size]

\* the ascending sequence of the numbers lo..hi
RECURSIVE Range(_, _)
Range(lo, hi) == IF lo > hi THEN <<>> ELSE <<lo>> \o Range(lo + 1, hi)

\* ------------------------------------------------------------ the engine
\* CleanerEngine._resolve_action
ResolveAction(rule) ==
    IF cfg.hard_recycle_only THEN "recycle" ELSE rule.action

NoChange(ok) ==
    [ok |-> ok, files |-> files, quarantine |-> quarantine, qdirs |-> qdirs,
     trash |-> trash]

\* mutant: the destination keeps the file name only, not the directories
\* between the base and the file
ApplyActionFlat(p, rule) ==
    IF ResolveAction(rule) = "recycle" /\ send2trash THEN
        IF p \in files /\ p \notin locked
        THEN [NoChange(TRUE) EXCEPT !.files = files \ {p}, !.trash = trash \cup {p}]
        ELSE NoChange(FALSE)
    ELSE IF ResolveAction(rule) = "delete" \/ ~cfg.quarantine_enabled THEN
        IF p \notin files THEN NoChange(TRUE)
        ELSE IF p \in locked THEN NoChange(FALSE)
        ELSE [NoChange(TRUE) EXCEPT !.files = files \ {p}]
    ELSE
        LET made == qdirs \cup {<<rule.name, Base>>}
            dest == [rule |-> rule.name, dir |-> Base, f |-> p, ext |-> FExt(p)]
        IN  IF p \in files /\ p \notin locked
            THEN [NoChange(TRUE) EXCEPT !.files = files \ {p},
                                        !.quarantine = quarantine \cup {dest},
                                        !.qdirs = made]
            ELSE [NoChange(FALSE) EXCEPT !.qdirs = made]

\* mutant: the delete branch does not look at quarantine_enabled
ApplyActionIgnoringQuarantineEnabled(p, rule) ==
    IF ResolveAction(rule) = "recycle" /\ send2trash THEN
        IF p \in files /\ p \notin locked
        THEN [NoChange(TRUE) EXCEPT !.files = files \ {p}, !.trash = trash \cup {p}]
        ELSE NoChange(FALSE)
    ELSE IF ResolveAction(rule) = "delete" THEN
        IF p \notin files THEN NoChange(TRUE)
        ELSE IF p \in locked THEN NoChange(FALSE)
        ELSE [NoChange(TRUE) EXCEPT !.files = files \ {p}]
    ELSE
        LET made == qdirs \cup {<<rule.name, Base>>, <<rule.name, FDir(p)>>}
            dest == [rule |-> rule.name, dir |-> FDir(p), f |-> p, ext |-> FExt(p)]
        IN  IF p \in files /\ p \notin locked
            THEN [NoChange(TRUE) EXCEPT !.files = files \ {p},
                                        !.quarantine = quarantine \cup {dest},
                                        !.qdirs = made]
            ELSE [NoChange(FALSE) EXCEPT !.qdirs = made]

\* CleanerEngine._recycle_or_quarantine_or_delete below its dry-run check:
\* the outcome of acting on file p under rule.  ok is the value returned
\* (FALSE is the except branch, which logs), the other fields are the
\* filesystem afterwards.
ApplyAction(p, rule) ==
    IF ResolveAction(rule) = "recycle" /\ send2trash THEN
        IF p \in files /\ p \notin locked
        THEN [NoChange(TRUE) EXCEPT !.files = files \ {p}, !.trash = trash \cup {p}]
        ELSE NoChange(FALSE)
    ELSE IF ResolveAction(rule) = "delete" \/ ~cfg.quarantine_enabled THEN
        IF p \notin files THEN NoChange(TRUE)            \* unlink(missing_ok=True)
        ELSE IF p \in locked THEN NoChange(FALSE)
        ELSE [NoChange(TRUE) EXCEPT !.files = files \ {p}]
    ELSE
        LET made == qdirs \cup {<<rule.name, Base>>, <<rule.name, FDir(p)>>}
            dest == [rule |-> rule.name, dir |-> FDir(p), f |-> p, ext |-> FExt(p)]
        IN  IF p \in files /\ p \notin locked
            THEN [NoChange(TRUE) EXCEPT !.files = files \ {p},
                                        !.quarantine = quarantine \cup {dest},
                                        !.qdirs = made]
            ELSE [NoChange(FALSE) EXCEPT !.qdirs = made]

\* mutant: the dry-run check is missing
RecycleIgnoringDryRun(p, rule) == ApplyAction(p, rule)

\* mutant: the except branch returns True
RecycleFailureCounted(p, rule) ==
    IF cfg.dry_run THEN NoChange(TRUE)
    ELSE [ApplyAction(p, rule) EXCEPT !.ok = TRUE]

\* CleanerEngine._recycle_or_quarantine_or_delete
RecycleOrQuarantineOrDelete(p, rule) ==
    IF cfg.dry_run THEN NoChange(TRUE) ELSE ApplyAction(p, rule)

\* mutant: the cap check lets one more file through
TotalCapOffByOne(n) == n > cfg.max_total_delete

\* act_on_files' check of deleted_files against max_total_delete
TotalCapReached(n) == n >= cfg.max_total_delete

\* p.stat().st_size in act_on_files, 0 when stat raises
StatSize(p) == IF p \in files THEN FSize(p) ELSE 0

\* ------------------------------------------------------------ the workers
NoRule == PathRule("", "nobase", <<>>, 0, FALSE, "delete", FALSE)

Worker(kind, pc) ==
    [kind |-> kind, pc |-> pc, ri |-> 1, rule |-> NoRule,
     snap |-> <<>>, ci |-> 1, deleted_files |-> 0, freed_bytes |-> 0,
     dq |-> <<>>, di |-> 1, deleted_total |-> 0, freed_total |-> 0,
     pi |-> 1, cands |-> <<>>, res |-> <<>>, res_size |-> 0]

Threads == 1..Len(threads)

\* mutant: the wait does not look at the stop flag
PausedIgnoringStop == pause

\* the loop condition of CleanerEngine.wait_if_paused
Paused == pause /\ ~stop

\* where each loop goes on after its wait_if_paused call
AfterWait(pc) ==
    CASE pc = "e_wait" -> "e_add"
      [] pc = "a_wait" -> "a_act"
      [] pc = "d_wait" -> "d_rm"

WaitPcs == {"e_wait", "a_wait", "d_wait"}

\* CleanerEngine.wait_if_paused returns: the worker polls every 0.1 s and
\* leaves the loop once pause is clear or stop is set
WaitIfPaused(t) ==
    /\ threads[t].pc \in WaitPcs
    /\ ~Paused
    /\ threads' = [threads EXCEPT ![t].pc = AfterWait(threads[t].pc)]
    /\ UNCHANGED schedvars
    /\ UNCHANGED <<cfg, send2trash, rules, scan_results, stop, pause,
                   files, dirs, locked, quarantine, qdirs, trash, log>>

\* ----------------------------------------------------------- enumeration
\* time.time() at the scan, and the seconds of a day (enumerate_rule)
Now == 1000000
DaySeconds == 86400

\* st_mtime of file f: file 1 was written now, file 2 a day ago, ...
FMtime(f) == Now - (f - 1) * DaySeconds
\* whether file f is a symbolic link
FIsLink(f) == f % 4 = 0

Patterns == {"*", "*.tmp", "*.log"}

\* fnmatch of an entry's name against a glob pattern; directory names have
\* no suffix
Match(pattern, p) ==
    \/ pattern = "*"
    \/ p > 0 /\ pattern = "*.tmp" /\ FExt(p) = "tmp"
    \/ p > 0 /\ pattern = "*.log" /\ FExt(p) = "log"

\* whether entry p exists
Exists(p) == IF p > 0 THEN p \in files ELSE p \in dirs

\* base.rglob(pattern): the existing entries below base that match, in
\* traversal order; base itself is not among them
Rglob(pattern) ==
    SelectSeq(<<SubDir, EmptyDir>> \o Range(1, NFiles),
              LAMBDA p : Exists(p) /\ Match(pattern, p)
                          /\ (p > 0 => FDir(p) \in dirs))

\* mutant: no test of the base path
BaseAlwaysExists(rule) == Base \in dirs

\* rule.resolve_base().exists()
BaseExists(rule) == rule.path = "base" /\ Base \in dirs

IsDir(p) == p <= 0 /\ p \in dirs
IsSymlink(p) == p > 0 /\ p \in files /\ FIsLink(p)

\* mutant: a file written exactly at the cutoff counts as older
OlderThanInclusive(p, cutoff) == p > 0 /\ p \in files /\ FMtime(p) <= cutoff

\* CleanerEngine.older_than
OlderThan(p, cutoff) == p > 0 /\ p \in files /\ FMtime(p) < cutoff

\* the set of the elements of a sequence
SeqSet(s) == {s[i] : i \in 1..Len(s)}

\* mutant: `seen` outlives the call, holding the files of the earlier results
SkippedSeenShared(p, rule, seen) ==
    \/ p \in seen
    \/ \E i \in 1..Len(scan_results) : p \in SeqSet(scan_results[i].files)
    \/ IsDir(p)
    \/ ~cfg.follow_symlinks /\ IsSymlink(p)
    \/ rule.min_age_days > 0
         /\ ~OlderThan(p, Now - rule.min_age_days * DaySeconds)

\* mutant: no `p in seen` test
SkippedWithoutSeen(p, rule, seen) ==
    \/ IsDir(p)
    \/ ~cfg.follow_symlinks /\ IsSymlink(p)
    \/ rule.min_age_days > 0
         /\ ~OlderThan(p, Now - rule.min_age_days * DaySeconds)

\* mutant: no is_symlink test
SkippedFollowingSymlinks(p, rule, seen) ==
    \/ p \in seen
    \/ IsDir(p)
    \/ rule.min_age_days > 0
         /\ ~OlderThan(p, Now - rule.min_age_days * DaySeconds)

\* enumerate_rule's three filters: TRUE when the candidate is skipped
Skipped(p, rule, seen) ==
    \/ p \in seen
    \/ IsDir(p)
    \/ ~cfg.follow_symlinks /\ IsSymlink(p)
    \/ rule.min_age_days > 0
         /\ ~OlderThan(p, Now - rule.min_age_days * DaySeconds)

\* enumerate_rule's cap check after an append
PerRuleCapReached(n) == n >= cfg.max_delete_per_rule

\* _scan_worker, its first statement
ScanClear(t) ==
    LET w == threads[t] IN
    /\ w.pc = "s_clear"
    /\ scan_results' = <<>>
    /\ threads' = [threads EXCEPT ![t].pc = "s_rule", ![t].ri = 1]
    /\ UNCHANGED schedvars
    /\ UNCHANGED <<cfg, send2trash, rules, stop, pause,
                   files, dirs, locked, quarantine, qdirs, trash, log>>

\* _scan_worker, the head of `for rule in self.rules`, and the start of
\* enumerate_rule, which returns at once for a disabled rule or a missing base
ScanRule(t) ==
    LET w == threads[t] IN
    /\ w.pc = "s_rule"
    /\ IF w.ri > Len(rules) \/ stop
       THEN /\ threads' = [threads EXCEPT ![t].pc = "done"]
            /\ UNCHANGED scan_results
       ELSE LET rule == rules[w.ri] IN
            IF ~rule.enabled \/ ~BaseExists(rule)
            THEN /\ scan_results' = Append(scan_results, ScanResult(rule, <<>>, 0))
                 /\ threads' = [threads EXCEPT ![t].ri = w.ri + 1]
            ELSE /\ threads' = [threads EXCEPT ![t].pc = "e_pat",
                                               ![t].rule = rule,
                                               ![t].pi = 1,
                                               ![t].res = <<>>,
                                               ![t].res_size = 0]
                 /\ UNCHANGED scan_results
    /\ UNCHANGED schedvars
    /\ UNCHANGED <<cfg, send2trash, rules, stop, pause,
                   files, dirs, locked, quarantine, qdirs, trash, log>>

\* enumerate_rule returns res to _scan_worker, which appends it
EnumReturn(t, w) ==
    /\ scan_results' = Append(scan_results, ScanResult(w.rule, w.res, w.res_size))
    /\ threads' = [threads EXCEPT ![t] = [w EXCEPT !.pc = "s_rule", !.ri = w.ri + 1]]

\* enumerate_rule, the head of `for pattern in rule.patterns`
EnumPattern(t) ==
    LET w == threads[t] IN
    /\ w.pc = "e_pat"
    /\ IF w.pi > Len(w.rule.patterns)
       THEN EnumReturn(t, w)
       ELSE /\ threads' = [threads EXCEPT ![t].pc = "e_file",
                                          ![t].cands = Rglob(w.rule.patterns[w.pi]),
                                          ![t].ci = 1]
            /\ UNCHANGED scan_results
    /\ UNCHANGED schedvars
    /\ UNCHANGED <<cfg, send2trash, rules, stop, pause,
                   files, dirs, locked, quarantine, qdirs, trash, log>>

\* mutant: the rglob loop has no stop check
EnumFileIgnoringStop(t) ==
    LET w == threads[t] IN
    /\ w.pc = "e_file"
    /\ IF w.ci > Len(w.cands)
       THEN threads' = [threads EXCEPT ![t].pc = "e_pat", ![t].pi = w.pi + 1]
       ELSE threads' = [threads EXCEPT ![t].pc = "e_wait"]
    /\ UNCHANGED schedvars
    /\ UNCHANGED <<cfg, send2trash, rules, scan_results, stop, pause,
                   files, dirs, locked, quarantine, qdirs, trash, log>>

\* enumerate_rule, the head of `for p in base.rglob(pattern)` with its stop
\* check, which returns the partial result
EnumFile(t) ==
    LET w == threads[t] IN
    /\ w.pc = "e_file"
    /\ IF w.ci > Len(w.cands)
       THEN /\ threads' = [threads EXCEPT ![t].pc = "e_pat", ![t].pi = w.pi + 1]
            /\ UNCHANGED scan_results
       ELSE IF stop
       THEN EnumReturn(t, w)
       ELSE /\ threads' = [threads EXCEPT ![t].pc = "e_wait"]
            /\ UNCHANGED scan_results
    /\ UNCHANGED schedvars
    /\ UNCHANGED <<cfg, send2trash, rules, stop, pause,
                   files, dirs, locked, quarantine, qdirs, trash, log>>

\* enumerate_rule's loop body after wait_if_paused: filter the candidate,
\* append it, add its size, and break out of this pattern's loop when the
\* cap is reached
EnumCandidate(t) ==
    LET w == threads[t]
        p == w.cands[w.ci]
    IN
    /\ w.pc = "e_add"
    /\ IF Skipped(p, w.rule, SeqSet(w.res))
       THEN threads' = [threads EXCEPT ![t].pc = "e_file", ![t].ci = w.ci + 1]
       ELSE IF PerRuleCapReached(Len(w.res) + 1)
       THEN threads' = [threads EXCEPT ![t].pc = "e_pat",
                                       ![t].pi = w.pi + 1,
                                       ![t].res = Append(w.res, p),
                                       ![t].res_size = w.res_size + StatSize(p)]
       ELSE threads' = [threads EXCEPT ![t].pc = "e_file",
                                       ![t].ci = w.ci + 1,
                                       ![t].res = Append(w.res, p),
                                       ![t].res_size = w.res_size + StatSize(p)]
    /\ UNCHANGED schedvars
    /\ UNCHANGED <<cfg, send2trash, rules, scan_results, stop, pause,
                   files, dirs, locked, quarantine, qdirs, trash, log>>

\* _clean_worker, the head of `for res in self.scan_results`
CleanRes(t) ==
    LET w == threads[t] IN
    /\ w.pc = "c_res"
    /\ IF w.ri > Len(scan_results) \/ stop
       THEN threads' = [threads EXCEPT ![t].pc = "done"]
       ELSE threads' = [threads EXCEPT ![t].pc = "a_file",
                                       ![t].snap = scan_results[w.ri].files,
                                       ![t].rule = scan_results[w.ri].rule,
                                       ![t].ci = 1,
                                       ![t].deleted_files = 0,
                                       ![t].freed_bytes = 0]
    /\ UNCHANGED schedvars
    /\ UNCHANGED <<cfg, send2trash, rules, scan_results, stop, pause,
                   files, dirs, locked, quarantine, qdirs, trash, log>>

\* act_on_files, the head of `for p in list(res.files)` with its stop check
ActFile(t) ==
    LET w == threads[t] IN
    /\ w.pc = "a_file"
    /\ IF w.ci > Len(w.snap) \/ stop
       THEN threads' = [threads EXCEPT ![t].pc = "c_cleanup"]
       ELSE threads' = [threads EXCEPT ![t].pc = "a_wait"]
    /\ UNCHANGED schedvars
    /\ UNCHANGED <<cfg, send2trash, rules, scan_results, stop, pause,
                   files, dirs, locked, quarantine, qdirs, trash, log>>

\* act_on_files' loop body after wait_if_paused: the cap check, the stat
\* and the action on the file
ActOnFile(t) ==
    LET w == threads[t]
        p == w.snap[w.ci]
        out == RecycleOrQuarantineOrDelete(p, w.rule)
    IN
    /\ w.pc = "a_act"
    /\ IF TotalCapReached(w.deleted_files)
       THEN /\ threads' = [threads EXCEPT ![t].pc = "c_cleanup"]
            /\ UNCHANGED <<files, quarantine, qdirs, trash, log>>
       ELSE /\ files' = out.files
            /\ quarantine' = out.quarantine
            /\ qdirs' = out.qdirs
            /\ trash' = out.trash
            /\ log' = IF out.ok THEN log ELSE Append(log, p)
            /\ threads' = [threads EXCEPT
                   ![t].pc = "a_file",
                   ![t].ci = w.ci + 1,
                   ![t].freed_bytes = IF out.ok THEN w.freed_bytes + StatSize(p)
                                      ELSE w.freed_bytes,
                   ![t].deleted_files = IF out.ok THEN w.deleted_files + 1
                                        ELSE w.deleted_files]
    /\ UNCHANGED schedvars
    /\ UNCHANGED <<cfg, send2trash, rules, scan_results, stop, pause, dirs, locked>>

\* mutant: the walk is top-down, parents first
WalkTopDown(rule) ==
    IF ~BaseExists(rule) THEN <<>>
    ELSE SelectSeq(<<Base, SubDir, EmptyDir>>, LAMBDA d : d \in dirs)

\* os.walk(base, topdown=False): the directories under base, children first
WalkBottomUp(rule) ==
    IF ~BaseExists(rule) THEN <<>>
    ELSE SelectSeq(<<SubDir, EmptyDir, Base>>, LAMBDA d : d \in dirs)

\* any(Path(root).iterdir())
HasEntries(d) ==
    \/ \E f \in files : FDir(f) = d
    \/ \E s \in dirs : s # d /\ s # Base /\ DirParent(s) = d

\* _clean_worker after act_on_files returned: the totals, and the start of
\* cleanup_empty_dirs when the rule asks for it
CleanupStart(t) ==
    LET w == threads[t]
        acc == [w EXCEPT !.deleted_total = w.deleted_total + w.deleted_files,
                         !.freed_total = w.freed_total + w.freed_bytes]
    IN
    /\ w.pc = "c_cleanup"
    /\ IF w.rule.remove_empty_dirs /\ ~cfg.dry_run
       THEN threads' = [threads EXCEPT ![t] =
                [acc EXCEPT !.pc = "d_dir", !.dq = WalkBottomUp(w.rule), !.di = 1]]
       ELSE threads' = [threads EXCEPT ![t] =
                [acc EXCEPT !.pc = "c_res", !.ri = w.ri + 1]]
    /\ UNCHANGED schedvars
    /\ UNCHANGED <<cfg, send2trash, rules, scan_results, stop, pause,
                   files, dirs, locked, quarantine, qdirs, trash, log>>

\* cleanup_empty_dirs, the head of the os.walk loop with its stop check
DirCheck(t) ==
    LET w == threads[t] IN
    /\ w.pc = "d_dir"
    /\ IF w.di > Len(w.dq) \/ stop
       THEN threads' = [threads EXCEPT ![t].pc = "c_res", ![t].ri = w.ri + 1]
       ELSE threads' = [threads EXCEPT ![t].pc = "d_wait"]
    /\ UNCHANGED schedvars
    /\ UNCHANGED <<cfg, send2trash, rules, scan_results, stop, pause,
                   files, dirs, locked, quarantine, qdirs, trash, log>>

\* cleanup_empty_dirs' loop body after wait_if_paused: rmdir of a directory
\* without entries; an rmdir that raises (a locked directory) is passed over
RemoveIfEmpty(t) ==
    LET w == threads[t]
        d == w.dq[w.di]
    IN
    /\ w.pc = "d_rm"
    /\ dirs' = IF d \in dirs /\ ~HasEntries(d) /\ d \notin locked
               THEN dirs \ {d} ELSE dirs
    /\ threads' = [threads EXCEPT ![t].pc = "d_dir", ![t].di = w.di + 1]
    /\ UNCHANGED schedvars
    /\ UNCHANGED <<cfg, send2trash, rules, scan_results, stop, pause,
                   files, locked, quarantine, qdirs, trash, log>>

\* CleanerEngine.stop, called by CleanerApp.cancel_ops
Stop ==
    /\ stop' = TRUE
    /\ pause' = FALSE
    /\ UNCHANGED schedvars
    /\ UNCHANGED <<cfg, send2trash, rules, scan_results, threads,
                   files, dirs, locked, quarantine, qdirs, trash, log>>

\* ------------------------------------------- a clean run on its own (SpecAct)
Rule1(action) == PathRule("R1", "base", <<"*">>, 0, TRUE, action, TRUE)
Rule2 == PathRule("R2", "base", <<"*">>, 0, FALSE, "quarantine", TRUE)

\* A clean worker has just been started on the results of an earlier scan
\* that listed the files 1..ActFiles; since then files may have vanished or
\* be locked.
InitAct ==
    /\ \E dry \in BOOLEAN, qe \in BOOLEAN, hro \in BOOLEAN, total \in 0..MaxCap :
          cfg = AppConfig(dry, qe, FALSE, NFiles, total, hro)
    /\ send2trash \in BOOLEAN
    /\ \E action \in ActionType :
          /\ rules = <<Rule1(action), Rule2>>
          /\ scan_results =
                <<ScanResult(Rule1(action), Range(1, ActFiles - 1), 0),
                  ScanResult(Rule2, Range(ActFiles, ActFiles), 0)>>
    /\ stop = FALSE
    /\ pause = FALSE
    /\ threads = <<Worker("clean", "c_res")>>
    /\ files \in SUBSET (1..ActFiles)
    /\ locked \in SUBSET files
    /\ dirs = AllDirs
    /\ quarantine = {}
    /\ qdirs = {}
    /\ trash = {}
    /\ log = <<>>
    /\ tasks = <<>>
    /\ h = FALSE
    /\ now = 0
    /\ fired = <<>>
    /\ HostInit

NextAct ==
    \/ \E t \in Threads : CleanRes(t)
    \/ \E t \in Threads : ActFile(t)
    \/ \E t \in Threads : ActOnFile(t)
    \/ \E t \in Threads : CleanupStart(t)
    \/ \E t \in Threads : DirCheck(t)
    \/ \E t \in Threads : RemoveIfEmpty(t)
    \/ \E t \in Threads : WaitIfPaused(t)
    \/ Stop

SpecAct == InitAct /\ [][NextAct]_vars

\* ------------------------------------------------ a scan on its own (SpecEnum)
PatternLists ==
    {<<"*">>, <<"*.tmp">>, <<"*.tmp", "*.log">>, <<"*.log", "*">>, <<"*", "*">>}

\* A scan worker has just been started by scan_async on a rule set of one
\* rule.
InitEnum ==
    /\ \E fl \in BOOLEAN, perRule \in 1..MaxCap :
          cfg = AppConfig(TRUE, TRUE, fl, perRule, MaxCap, FALSE)
    /\ send2trash = FALSE
    /\ \E pats \in PatternLists, age \in 0..1, enabled \in BOOLEAN,
          path \in {"base", "nobase"} :
          rules = <<PathRule("R1", path, pats, age, TRUE, "quarantine", enabled)>>
    /\ scan_results = <<>>
    /\ stop = FALSE
    /\ pause = FALSE
    /\ threads = <<Worker("scan", "s_clear")>>
    /\ files \in SUBSET FileIds
    /\ locked = {}
    /\ dirs = AllDirs
    /\ quarantine = {}
    /\ qdirs = {}
    /\ trash = {}
    /\ log = <<>>
    /\ tasks = <<>>
    /\ h = FALSE
    /\ now = 0
    /\ fired = <<>>
    /\ HostInit

NextEnum ==
    \/ \E t \in Threads : ScanClear(t)
    \/ \E t \in Threads : ScanRule(t)
    \/ \E t \in Threads : EnumPattern(t)
    \/ \E t \in Threads : EnumFile(t)
    \/ \E t \in Threads : EnumCandidate(t)
    \/ \E t \in Threads : WaitIfPaused(t)
    \/ Stop

SpecEnum == InitEnum /\ [][NextEnum]_vars

\* ------------------------- a scan while files are removed (SpecVanish)
\* another process removes file f; a worker's rglob candidates still name it
Unlink(f) ==
    /\ f \in files
    /\ files' = files \ {f}
    /\ UNCHANGED schedvars
    /\ UNCHANGED <<cfg, send2trash, rules, scan_results, stop, pause, threads,
                   dirs, locked, quarantine, qdirs, trash, log>>

\* A scan worker has just been started on one enabled rule whose base
\* exists.
InitVanish ==
    /\ InitEnum
    /\ rules[1].enabled
    /\ rules[1].path = "base"

NextVanish ==
    \/ \E t \in Threads : ScanClear(t)
    \/ \E t \in Threads : ScanRule(t)
    \/ \E t \in Threads : EnumPattern(t)
    \/ \E t \in Threads : EnumFile(t)
    \/ \E t \in Threads : EnumCandidate(t)
    \/ \E t \in Threads : WaitIfPaused(t)
    \/ \E f \in FileIds : Unlink(f)
    \/ Stop

SpecVanish == InitVanish /\ [][NextVanish]_vars

\* ------------------------------ one rule enumerated twice (SpecTwice)
\* A scan worker has just been started on a rule list that holds the same
\* rule twice (update_rule_from_form appends without looking at the names).
InitTwice ==
    /\ \E fl \in BOOLEAN, perRule \in 1..MaxCap :
          cfg = AppConfig(TRUE, TRUE, fl, perRule, MaxCap, FALSE)
    /\ send2trash = FALSE
    /\ \E pats \in PatternLists, age \in 0..1 :
          LET rule == PathRule("R1", "base", pats, age, TRUE, "quarantine", TRUE)
          IN  rules = <<rule, rule>>
    /\ scan_results = <<>>
    /\ stop = FALSE
    /\ pause = FALSE
    /\ threads = <<Worker("scan", "s_clear")>>
    /\ files \in SUBSET FileIds
    /\ locked = {}
    /\ dirs = AllDirs
    /\ quarantine = {}
    /\ qdirs = {}
    /\ trash = {}
    /\ log = <<>>
    /\ tasks = <<>>
    /\ h = FALSE
    /\ now = 0
    /\ fired = <<>>
    /\ HostInit

SpecTwice == InitTwice /\ [][NextEnum]_vars

\* ------------------------------------------------- the application (Spec)
\* CleanerApp.scan_async as a change of st = [stop, threads, fired]
ScanAsyncEffect(st) ==
    [st EXCEPT !.stop = FALSE, !.threads = Append(@, Worker("scan", "s_clear"))]

\* CleanerApp.clean_async: without scan results it shows "Run a Scan first."
\* and returns
CleanAsyncEffect(st) ==
    IF scan_results = <<>> THEN st
    ELSE [st EXCEPT !.stop = FALSE, !.threads = Append(@, Worker("clean", "c_res"))]

\* CleanerApp.purge_pip_cache_async / purge_npm_cache_async
PurgeAsyncEffect(kind, st) ==
    [st EXCEPT !.threads = Append(@, Worker(kind, "p_run"))]

AppState == [stop |-> stop, threads |-> threads, fired |-> fired]

\* the Scan button
ScanAsync ==
    /\ Len(threads) < MaxThreads
    /\ stop' = ScanAsyncEffect(AppState).stop
    /\ threads' = ScanAsyncEffect(AppState).threads
    /\ UNCHANGED schedvars
    /\ UNCHANGED <<cfg, send2trash, rules, scan_results, pause,
                   files, dirs, locked, quarantine, qdirs, trash, log>>

\* the Clean button, when scan results exist
CleanAsync ==
    /\ Len(threads) < MaxThreads
    /\ scan_results # <<>>
    /\ stop' = CleanAsyncEffect(AppState).stop
    /\ threads' = CleanAsyncEffect(AppState).threads
    /\ UNCHANGED schedvars
    /\ UNCHANGED <<cfg, send2trash, rules, scan_results, pause,
                   files, dirs, locked, quarantine, qdirs, trash, log>>

\* mutant: resuming also clears the stop flag
PauseResumeClearsStop ==
    /\ pause' = ~pause
    /\ stop' = IF pause THEN FALSE ELSE stop
    /\ UNCHANGED schedvars
    /\ UNCHANGED <<cfg, send2trash, rules, scan_results, threads,
                   files, dirs, locked, quarantine, qdirs, trash, log>>

\* CleanerApp.pause_resume, with CleanerEngine.toggle_pause
PauseResume ==
    /\ pause' = ~pause
    /\ UNCHANGED schedvars
    /\ UNCHANGED <<cfg, send2trash, rules, scan_results, stop, threads,
                   files, dirs, locked, quarantine, qdirs, trash, log>>

\* CleanerApp.cancel_ops
CancelOps == Stop

\* The application after CleanerApp.__init__: no worker, no scan results.
Init ==
    /\ cfg = AppConfig(FALSE, TRUE, FALSE, NFiles, MaxCap, FALSE)
    /\ send2trash = FALSE
    /\ rules = <<Rule1("delete")>>
    /\ scan_results = <<>>
    /\ stop = FALSE
    /\ pause = FALSE
    /\ threads = <<>>
    /\ files = 1..AppFiles
    /\ locked = {}
    /\ dirs = AllDirs
    /\ quarantine = {}
    /\ qdirs = {}
    /\ trash = {}
    /\ log = <<>>
    /\ tasks = <<>>
    /\ h = FALSE
    /\ now = 0
    /\ fired = <<>>
    /\ HostInit

Next ==
    \/ ScanAsync
    \/ CleanAsync
    \/ PauseResume
    \/ CancelOps
    \/ \E t \in Threads : ScanClear(t)
    \/ \E t \in Threads : ScanRule(t)
    \/ \E t \in Threads : EnumPattern(t)
    \/ \E t \in Threads : EnumFile(t)
    \/ \E t \in Threads : EnumCandidate(t)
    \/ \E t \in Threads : CleanRes(t)
    \/ \E t \in Threads : ActFile(t)
    \/ \E t \in Threads : ActOnFile(t)
    \/ \E t \in Threads : CleanupStart(t)
    \/ \E t \in Threads : DirCheck(t)
    \/ \E t \in Threads : RemoveIfEmpty(t)
    \/ \E t \in Threads : WaitIfPaused(t)

Spec == Init /\ [][Next]_vars

\* ------------------------------ two running workers and the user (SpecPause)
\* any step of worker thread t
WorkerStep(t) ==
    /\ t \in Threads
    /\ \/ ScanClear(t) \/ ScanRule(t) \/ EnumPattern(t) \/ EnumFile(t)
       \/ EnumCandidate(t) \/ CleanRes(t) \/ ActFile(t) \/ ActOnFile(t)
       \/ CleanupStart(t) \/ DirCheck(t) \/ RemoveIfEmpty(t) \/ WaitIfPaused(t)

\* Clean was clicked on the results of an earlier scan and Scan was clicked
\* right after it: both workers have just been started.
InitPause ==
    /\ cfg = AppConfig(FALSE, TRUE, FALSE, NFiles, MaxCap, FALSE)
    /\ send2trash = FALSE
    /\ rules = <<Rule1("delete")>>
    /\ scan_results = <<ScanResult(Rule1("delete"), Range(1, AppFiles), 0)>>
    /\ stop = FALSE
    /\ pause = FALSE
    /\ threads = <<Worker("clean", "c_res"), Worker("scan", "s_clear")>>
    /\ files = 1..AppFiles
    /\ locked = {}
    /\ dirs = AllDirs
    /\ quarantine = {}
    /\ qdirs = {}
    /\ trash = {}
    /\ log = <<>>
    /\ tasks = <<>>
    /\ h = FALSE
    /\ now = 0
    /\ fired = <<>>
    /\ HostInit

NextPause ==
    \/ PauseResume
    \/ CancelOps
    \/ \E t \in Threads : ScanClear(t)
    \/ \E t \in Threads : ScanRule(t)
    \/ \E t \in Threads : EnumPattern(t)
    \/ \E t \in Threads : EnumFile(t)
    \/ \E t \in Threads : EnumCandidate(t)
    \/ \E t \in Threads : CleanRes(t)
    \/ \E t \in Threads : ActFile(t)
    \/ \E t \in Threads : ActOnFile(t)
    \/ \E t \in Threads : CleanupStart(t)
    \/ \E t \in Threads : DirCheck(t)
    \/ \E t \in Threads : RemoveIfEmpty(t)
    \/ \E t \in Threads : WaitIfPaused(t)

\* The operating system schedules every started thread: a worker whose next
\* step stays possible takes it.  Nothing is assumed of the user.
SpecPause ==
    /\ InitPause
    /\ [][NextPause]_vars
    /\ WF_vars(WorkerStep(1))
    /\ WF_vars(WorkerStep(2))

\* ------------------------------------------------- the scheduler (SpecSched)
\* A time string is the sequence of its characters.
Digits == {"0", "1", "2", "3", "4", "5", "6", "7", "8", "9"}

DigitVal(c) ==
    CASE c = "0" -> 0 [] c = "1" -> 1 [] c = "2" -> 2 [] c = "3" -> 3
      [] c = "4" -> 4 [] c = "5" -> 5 [] c = "6" -> 6 [] c = "7" -> 7
      [] c = "8" -> 8 [] c = "9" -> 9

\* str.split(":", 1): the index of the first ":" in s, 0 when there is none
RECURSIVE FirstColon(_, _)
FirstColon(s, i) ==
    IF i > Len(s) THEN 0
    ELSE IF s[i] = ":" THEN i
    ELSE FirstColon(s, i + 1)

\* the value of a sequence of digits
RECURSIVE DigitsVal(_)
DigitsVal(s) ==
    IF s = <<>> THEN 0
    ELSE 10 * DigitsVal(SubSeq(s, 1, Len(s) - 1)) + DigitVal(s[Len(s)])

\* str.strip() on the blanks at both ends
RECURSIVE StripBlanks(_)
StripBlanks(s) ==
    IF s # <<>> /\ s[1] = " " THEN StripBlanks(Tail(s))
    ELSE IF s # <<>> /\ s[Len(s)] = " " THEN StripBlanks(SubSeq(s, 1, Len(s) - 1))
    ELSE s

\* int(x): blanks around, an optional sign, then one or more digits; ok is
\* FALSE where int raises ValueError
PyInt(x) ==
    LET s == StripBlanks(x)
        signed == s # <<>> /\ s[1] \in {"-", "+"}
        body == IF signed THEN Tail(s) ELSE s
    IN  IF body = <<>> \/ \E i \in 1..Len(body) : body[i] \notin Digits
        THEN [ok |-> FALSE, val |-> 0]
        ELSE [ok |-> TRUE,
              val |-> IF signed /\ s[1] = "-" THEN 0 - DigitsVal(body)
                      ELSE DigitsVal(body)]

\* _tick's `hh, mm = [int(x) for x in time.split(":", 1)]` and the range
\* check of datetime.replace: ok is FALSE where the try block raises
ParseTime(s) ==
    LET c == FirstColon(s, 1)
        hh == PyInt(SubSeq(s, 1, c - 1))
        mm == PyInt(SubSeq(s, c + 1, Len(s)))
    IN  IF c = 0 \/ ~hh.ok \/ ~mm.ok
            \/ hh.val \notin 0..23 \/ mm.val \notin 0..59
        THEN [ok |-> FALSE, hh |-> 0, mm |-> 0]
        ELSE [ok |-> TRUE, hh |-> hh.val, mm |-> mm.val]

\* now.replace(hour=hh, minute=mm, second=0, microsecond=0)
Target(t, hh, mm) == (t \div DaySeconds) * DaySeconds + hh * 3600 + mm * 60

\* the trailing window of _tick, in seconds
WindowSeconds == 30
\* the polling interval of _tick, in seconds
TickSeconds == 15

\* mutant: the window is a minute long
InWindowMinute(t, target) == t >= target /\ t - target < 60

\* _tick's test `now >= target and now - target < timedelta(seconds=30)`
InWindow(t, target) == t >= target /\ t - target < WindowSeconds

\* action.lower().strip() on the action names used here
NormalizeAction(a) ==
    CASE a = "SCAN" -> "scan"
      [] a = " clean" -> "clean"
      [] OTHER -> a

\* SimpleScheduler._run_action
RunAction(action, st) ==
    LET a == NormalizeAction(action) IN
    IF a = "scan" THEN ScanAsyncEffect(st)
    ELSE IF a = "clean" THEN CleanAsyncEffect(st)
    ELSE IF a = "purge_pip" THEN PurgeAsyncEffect("purge_pip", st)
    ELSE IF a = "purge_npm" THEN PurgeAsyncEffect("purge_npm", st)
    ELSE st

\* whether entry i fires in a tick evaluated at t
Fires(i, t) ==
    LET parsed == ParseTime(tasks[i].time) IN
    parsed.ok /\ InWindow(t, Target(t, parsed.hh, parsed.mm))

\* mutant: one try block around the whole loop, so that the first malformed
\* entry ends the tick's loop
RECURSIVE TickLoopAborting(_, _, _)
TickLoopAborting(i, t, st) ==
    IF i > Len(tasks) \/ ~ParseTime(tasks[i].time).ok THEN st
    ELSE IF Fires(i, t)
    THEN TickLoopAborting(i + 1, t,
             RunAction(tasks[i].action,
                       [st EXCEPT !.fired = Append(@, [i |-> i, at |-> t])]))
    ELSE TickLoopAborting(i + 1, t, st)

\* _tick's `for t in self.tasks` from entry i on, evaluated at time t
RECURSIVE TickLoop(_, _, _)
TickLoop(i, t, st) ==
    IF i > Len(tasks) THEN st
    ELSE IF Fires(i, t)
    THEN TickLoop(i + 1, t,
             RunAction(tasks[i].action,
                       [st EXCEPT !.fired = Append(@, [i |-> i, at |-> t])]))
    ELSE TickLoop(i + 1, t, st)

\* root.after: the handle of a new timer, none of the pending ones
FreshHandle(live) ==
    CHOOSE i \in 1..(Cardinality(live) + 1) :
        i \notin live /\ \A j \in 1..(i - 1) : j \in live

\* mutant: stop() forgets the handle without cancelling its timer
CancelNothing == timers

\* the pending timers after SimpleScheduler.stop's after_cancel(self._h)
CancelHandle == IF h THEN timers \ {hid} ELSE timers

\* SimpleScheduler._tick run at time t, the timers in `live` pending: the
\* loop, then a new timer is armed, kept in _h and registered
TickAt(t, live) ==
    LET st == TickLoop(1, t, AppState)
        id == FreshHandle(live)
    IN
    /\ now' = t
    /\ stop' = st.stop
    /\ threads' = st.threads
    /\ fired' = st.fired
    /\ h' = TRUE
    /\ hid' = id
    /\ timers' = live \cup {id}
    /\ after_handles' = after_handles \cup {id}
    /\ UNCHANGED <<cfg, send2trash, rules, scan_results, pause, tasks,
                   files, dirs, locked, quarantine, qdirs, trash, log>>
    /\ UNCHANGED <<rules_file, schedule_file, ui, caches,
                   is_shutting_down, close_pc, joined, dialog>>

\* SimpleScheduler.start: stop(), then the first _tick
SchedulerStart ==
    /\ close_pc = "idle"
    /\ TickAt(now, CancelHandle)

\* SimpleScheduler.stop
SchedulerStop ==
    /\ close_pc = "idle"
    /\ h' = FALSE
    /\ hid' = 0
    /\ timers' = CancelHandle
    /\ UNCHANGED <<cfg, send2trash, rules, scan_results, stop, pause, threads,
                   files, dirs, locked, quarantine, qdirs, trash, log>>
    /\ UNCHANGED <<tasks, now, fired, rules_file, schedule_file, ui, caches,
                   after_handles, is_shutting_down, close_pc, joined, dialog>>

\* SimpleScheduler.start, called once by CleanerApp.__init__: stop(), which
\* finds no timer, then the first _tick
SchedStart ==
    /\ ~h
    /\ fired = <<>>
    /\ SchedulerStart

\* a pending timer runs _tick on the idle main thread, TickSeconds after it
\* was armed or up to MaxJitter seconds later
Tick ==
    /\ close_pc = "idle"
    /\ \E id \in timers, j \in 0..MaxJitter :
          /\ now + TickSeconds + j <= MaxClock
          /\ TickAt(now + TickSeconds + j, timers \ {id})

Chars(hh1, hh2, mm1, mm2) == <<hh1, hh2, ":", mm1, mm2>>

Task(name, action, time) == [name |-> name, action |-> action, time |-> time]

T0230 == Chars("0", "2", "3", "0")
T0231 == Chars("0", "2", "3", "1")

\* the schedule lists of the model: well-formed and malformed time strings
TaskLists ==
    { <<Task("a", "scan", T0230)>>,
      <<Task("a", "clean", T0230), Task("b", "purge_pip", T0231)>>,
      <<Task("a", "SCAN", <<"2", ":", "3", "0">>),
        Task("b", "purge_npm", <<" ", "2", ":", "+", "3", "1">>)>>,
      <<Task("a", "purge_pip", T0230), Task("b", "scan", <<"0", "2", "3", "0">>),
        Task("c", " clean", T0230)>>,
      <<Task("a", "scan", Chars("2", "4", "3", "0")), Task("b", "bogus", T0230),
        Task("c", "scan", Chars("0", "2", "6", "0"))>>,
      <<Task("a", "scan", <<"0", "2", ":", "3", "0", ":", "0", "0">>),
        Task("b", "scan", <<"-", "2", ":", "3", "0">>),
        Task("c", "purge_npm", T0231)>>,
      <<Task("a", "scan", <<"a", "b", ":", "3", "0">>),
        Task("b", "scan", <<>>), Task("c", "scan", <<"0", "2", ":">>)>> }

\* Either the application built up to the call of scheduler.start(), or
\* the application later on, its timer armed by the tick that ran at `now`,
\* an earlier scan finished and Cancel clicked or not.  `now` is between
\* 02:29:30 and 02:29:44; `fired` counts from here.
InitSched ==
    /\ cfg = AppConfig(TRUE, TRUE, FALSE, NFiles, MaxCap, FALSE)
    /\ send2trash = FALSE
    /\ rules = <<Rule1("delete")>>
    /\ \/ /\ h = FALSE
          /\ hid = 0
          /\ timers = {}
          /\ scan_results = <<>>
          /\ threads = <<>>
          /\ stop = FALSE
       \/ /\ h = TRUE
          /\ hid = 1
          /\ timers = {1}
          /\ scan_results = <<ScanResult(Rule1("delete"), <<1>>, 1)>>
          /\ threads = <<[Worker("scan", "done") EXCEPT !.ri = 2]>>
          /\ stop \in BOOLEAN
    /\ after_handles = timers
    /\ rules_file = <<>>
    /\ ui = NoMessage
    /\ caches = {}
    /\ is_shutting_down = FALSE
    /\ close_pc = "idle"
    /\ joined = <<>>
    /\ dialog = <<>>
    /\ pause = FALSE
    /\ files = 1..AppFiles
    /\ locked = {}
    /\ dirs = AllDirs
    /\ quarantine = {}
    /\ qdirs = {}
    /\ trash = {}
    /\ log = <<>>
    /\ tasks \in TaskLists
    /\ schedule_file = <<tasks>>
    /\ now \in (2 * 3600 + 29 * 60 + 30)..(2 * 3600 + 29 * 60 + 30 + TickSeconds - 1)
    /\ fired = <<>>

NextSched ==
    \/ SchedStart
    \/ Tick
    \/ CancelOps

SpecSched == InitSched /\ [][NextSched]_vars

\* --------------------------- start, stop and ticks in any order (SpecTimer)
\* start() called by the host, as long as fewer than MaxFired firings were
\* made
StartCall ==
    /\ Len(fired) < MaxFired
    /\ SchedulerStart

NextTimer ==
    \/ StartCall
    \/ SchedulerStop
    \/ Tick

SpecTimer == InitSched /\ [][NextTimer]_vars

\* ------------------------------------------------- closing the window (SpecClose)
\* mutant: the window is destroyed without waiting for the joins
JoinsSkipped == TRUE

\* on_close's `for t in self._threads_to_join` has run to its end
JoinsDone == Len(joined) = Len(threads)

\* mutant: no _is_shutting_down test at the head of on_close
AlwaysFirstClose == TRUE

\* on_close's test of _is_shutting_down: TRUE when the call goes on
FirstClose == ~is_shutting_down

\* ShutdownMixin.on_close up to its join loop: the flag, after_cancel of
\* every registered handle; no queue and no shutdown callback is
\* registered by this application.  A repeated call returns at once.
OnClose ==
    /\ close_pc \in {"idle", "closed"}
    /\ IF FirstClose
       THEN /\ is_shutting_down' = TRUE
            /\ timers' = timers \ after_handles
            /\ after_handles' = {}
            /\ close_pc' = "join"
            /\ joined' = <<>>
       ELSE UNCHANGED <<is_shutting_down, timers, after_handles, close_pc, joined>>
    /\ UNCHANGED <<cfg, send2trash, rules, scan_results, stop, pause, threads,
                   files, dirs, locked, quarantine, qdirs, trash, log>>
    /\ UNCHANGED <<tasks, h, now, fired, rules_file, schedule_file, ui, caches,
                   hid, dialog>>

\* on_close's t.join(timeout=1.0) on the next registered thread: it returns
\* when the thread has ended or after a second
OnCloseJoin ==
    /\ close_pc = "join"
    /\ Len(joined) < Len(threads)
    /\ joined' = Append(joined,
                        IF threads[Len(joined) + 1].pc = "done"
                        THEN "ended" ELSE "timeout")
    /\ UNCHANGED <<cfg, send2trash, rules, scan_results, stop, pause, threads,
                   files, dirs, locked, quarantine, qdirs, trash, log>>
    /\ UNCHANGED <<tasks, h, now, fired, rules_file, schedule_file, ui, caches,
                   timers, hid, after_handles, is_shutting_down, close_pc, dialog>>

\* on_close after the join loop: root.destroy(), with which every callback
\* still pending in Tk is gone
OnCloseDestroy ==
    /\ close_pc = "join"
    /\ JoinsDone
    /\ close_pc' = "closed"
    /\ timers' = {}
    /\ UNCHANGED <<cfg, send2trash, rules, scan_results, stop, pause, threads,
                   files, dirs, locked, quarantine, qdirs, trash, log>>
    /\ UNCHANGED <<tasks, h, now, fired, rules_file, schedule_file, ui, caches,
                   hid, after_handles, is_shutting_down, joined, dialog>>

\* The application some time after its start: a clean worker has just been
\* started on the results of a scan, the scheduler's timer is armed and an
\* entry "purge_pip" at 02:30 is due at one of the next ticks.
InitClose ==
    /\ cfg = AppConfig(FALSE, TRUE, FALSE, NFiles, MaxCap, FALSE)
    /\ send2trash = FALSE
    /\ rules = <<Rule1("delete")>>
    /\ scan_results = <<ScanResult(Rule1("delete"), Range(1, AppFiles), 0)>>
    /\ stop = FALSE
    /\ pause = FALSE
    /\ threads = <<Worker("clean", "c_res")>>
    /\ files = 1..AppFiles
    /\ locked = {}
    /\ dirs = AllDirs
    /\ quarantine = {}
    /\ qdirs = {}
    /\ trash = {}
    /\ log = <<>>
    /\ tasks = <<Task("a", "purge_pip", T0230)>>
    /\ h = TRUE
    /\ hid = 1
    /\ timers = {1}
    /\ after_handles = {1}
    /\ now \in (2 * 3600 + 29 * 60 + 30)..(2 * 3600 + 29 * 60 + 30 + TickSeconds - 1)
    /\ fired = <<>>
    /\ rules_file = <<>>
    /\ schedule_file = <<tasks>>
    /\ ui = NoMessage
    /\ caches = {}
    /\ is_shutting_down = FALSE
    /\ close_pc = "idle"
    /\ joined = <<>>
    /\ dialog = <<>>

NextClose ==
    \/ OnClose
    \/ OnCloseJoin
    \/ OnCloseDestroy
    \/ Tick
    \/ \E t \in Threads : CleanRes(t)
    \/ \E t \in Threads : ActFile(t)
    \/ \E t \in Threads : ActOnFile(t)
    \/ \E t \in Threads : CleanupStart(t)
    \/ \E t \in Threads : DirCheck(t)
    \/ \E t \in Threads : RemoveIfEmpty(t)
    \/ \E t \in Threads : WaitIfPaused(t)

SpecClose == InitClose /\ [][NextClose]_vars

\* -------------------------------- the cleanup of empty directories (SpecCleanup)
\* A clean worker's act_on_files has returned for the one rule of the run,
\* which asks for the removal of empty directories; some files are left,
\* some directories are missing or cannot be removed.
InitCleanup ==
    /\ \E dry \in BOOLEAN : cfg = AppConfig(dry, TRUE, FALSE, NFiles, MaxCap, FALSE)
    /\ send2trash = FALSE
    /\ rules = <<Rule1("delete")>>
    /\ scan_results = <<ScanResult(Rule1("delete"), <<>>, 0)>>
    /\ stop = FALSE
    /\ pause \in BOOLEAN
    /\ threads = <<[Worker("clean", "c_cleanup") EXCEPT !.rule = Rule1("delete")]>>
    /\ files \in SUBSET (1..ActFiles)
    /\ dirs \in {D \in SUBSET AllDirs : Base \in D /\ \A f \in files : FDir(f) \in D}
    /\ locked \in SUBSET (dirs \ {Base})
    /\ quarantine = {}
    /\ qdirs = {}
    /\ trash = {}
    /\ log = <<>>
    /\ tasks = <<>>
    /\ h = FALSE
    /\ now = 0
    /\ fired = <<>>
    /\ HostInit

NextCleanup ==
    \/ \E t \in Threads : CleanupStart(t)
    \/ \E t \in Threads : DirCheck(t)
    \/ \E t \in Threads : WaitIfPaused(t)
    \/ \E t \in Threads : RemoveIfEmpty(t)
    \/ \E t \in Threads : CleanRes(t)
    \/ PauseResume
    \/ CancelOps

SpecCleanup == InitCleanup /\ [][NextCleanup]_vars

\* ------------------------------------------------ the purge helpers (SpecPurge)
\* the cache locations of a Linux home: ~/.cache/pip, ~/.npm, ~/.cache/npm
CacheDirs == {"pip", "npm", "cache_npm"}

\* mutant: under dry-run the helper removes nothing
PurgeDirsRespectingDryRun(kind) ==
    IF cfg.dry_run THEN {}
    ELSE IF kind = "purge_pip" THEN {"pip"} ELSE {"npm", "cache_npm"}

\* the `dirs` list of ExternalPurges.purge_pip_cache / purge_npm_cache
PurgeDirs(kind) ==
    IF kind = "purge_pip" THEN {"pip"} ELSE {"npm", "cache_npm"}

\* the thread started by purge_pip_cache_async / purge_npm_cache_async:
\* rmtree of every listed directory that exists, then the count is logged
PurgeRun(t) ==
    LET w == threads[t]
        found == PurgeDirs(w.kind) \cap caches
    IN
    /\ w.pc = "p_run"
    /\ caches' = caches \ found
    /\ log' = Append(log, [purge |-> w.kind, removed |-> Cardinality(found)])
    /\ threads' = [threads EXCEPT ![t].pc = "done"]
    /\ UNCHANGED <<cfg, send2trash, rules, scan_results, stop, pause,
                   files, dirs, locked, quarantine, qdirs, trash>>
    /\ UNCHANGED <<tasks, h, now, fired, rules_file, schedule_file, ui, timers,
                   hid, after_handles, is_shutting_down, close_pc, joined, dialog>>

\* the Purge pip cache / Purge npm cache buttons
PurgeCacheAsync(kind) ==
    /\ Len(threads) < MaxThreads
    /\ threads' = PurgeAsyncEffect(kind, AppState).threads
    /\ UNCHANGED <<cfg, send2trash, rules, scan_results, stop, pause,
                   files, dirs, locked, quarantine, qdirs, trash, log>>
    /\ UNCHANGED schedvars

\* The application with a finished scan, in any state of the dry-run
\* setting and of the stop and pause flags (stop stays set after a Cancel).
InitPurge ==
    /\ \E dry \in BOOLEAN : cfg = AppConfig(dry, TRUE, FALSE, NFiles, MaxCap, FALSE)
    /\ send2trash = FALSE
    /\ rules = <<Rule1("delete")>>
    /\ scan_results = <<ScanResult(Rule1("delete"), Range(1, AppFiles), 0)>>
    /\ stop \in BOOLEAN
    /\ pause \in BOOLEAN
    /\ threads = <<>>
    /\ files = 1..AppFiles
    /\ locked = {}
    /\ dirs = AllDirs
    /\ quarantine = {}
    /\ qdirs = {}
    /\ trash = {}
    /\ log = <<>>
    /\ tasks = <<>>
    /\ h = FALSE
    /\ now = 0
    /\ fired = <<>>
    /\ rules_file = <<>>
    /\ schedule_file = <<>>
    /\ ui = NoMessage
    /\ caches \in SUBSET CacheDirs
    /\ timers = {}
    /\ hid = 0
    /\ after_handles = {}
    /\ is_shutting_down = FALSE
    /\ close_pc = "idle"
    /\ joined = <<>>
    /\ dialog = <<>>

NextPurge ==
    \/ PurgeCacheAsync("purge_pip")
    \/ PurgeCacheAsync("purge_npm")
    \/ \E t \in Threads : PurgeRun(t)
    \/ PauseResume
    \/ CancelOps

SpecPurge == InitPurge /\ [][NextPurge]_vars

\* --------------------------------------------- the store and the two editors
\* A JSON document is held as the value it encodes: an object is a function
\* on its keys, an array a sequence.  Rule names are character sequences here,
\* so that the editor's strip() is computed.

ConfigDefaults == AppConfig(TRUE, TRUE, FALSE, 50000, 200000, FALSE)

\* the defaults of PathRule's optional fields; name and path have none
RuleDefaults == PathRule(<<>>, "", <<"*">>, 0, TRUE, "quarantine", TRUE)

\* browser_cache_rules() on a Linux host where one of the browser cache
\* directories exists
BrowserCacheRules ==
    <<PathRule(<<"B">>, "browser", <<"**/*">>, 2, TRUE, "quarantine", TRUE)>>

\* os_specific_rules() on Linux: ~/.cache and the thumbnail cache
OsSpecificRules ==
    <<PathRule(<<"O">>, "cache", <<"**/*">>, 3, TRUE, "quarantine", TRUE),
      PathRule(<<"T">>, "thumbnails", <<"**/*">>, 7, TRUE, "quarantine", TRUE)>>

DefaultRules ==
    <<PathRule(<<"S">>, "tmp", <<"*">>, 1, TRUE, "quarantine", TRUE),
      PathRule(<<"P">>, "home", <<"**/__pycache__/*">>, 0, TRUE, "quarantine", TRUE)>>
    \o BrowserCacheRules \o OsSpecificRules

\* mutant: the configuration is written without its dry_run key
AsDictWithoutDryRun(x) == [k \in (DOMAIN x) \ {"dry_run"} |-> x[k]]

\* dataclasses.asdict: every field under its name
AsDict(x) == [k \in DOMAIN x |-> x[k]]

\* Cls(**d): the keys of d, the class defaults for the fields d lacks
FromDict(d, defaults) ==
    [k \in DOMAIN defaults |-> IF k \in DOMAIN d THEN d[k] ELSE defaults[k]]

\* the document ConfigStore.save writes
StoreSave(c, rs) ==
    [config |-> AsDict(c), rules |-> [i \in 1..Len(rs) |-> AsDict(rs[i])]]

\* ConfigStore.load
StoreLoad(file) ==
    IF file = <<>> THEN [cfg |-> ConfigDefaults, rules |-> DefaultRules]
    ELSE LET data == file[1]
             c == IF "config" \in DOMAIN data THEN data.config ELSE <<>>
             rs == IF "rules" \in DOMAIN data THEN data.rules ELSE <<>>
         IN  [cfg |-> FromDict(c, ConfigDefaults),
              rules |-> [i \in 1..Len(rs) |-> FromDict(rs[i], RuleDefaults)]]

\* ConfigStore.load_schedules
LoadSchedules(file) == IF file = <<>> THEN <<>> ELSE file[1]

\* what the user can have typed into the rule editor's name field
FormNames == {<<>>, <<" ">>, <<"A">>, <<" ", "B", " ">>}

\* what the user can have typed into the schedule editor's time field
FormTimes == {<<" ", "0", "2", ":", "3", "0">>, Chars("2", "5", "9", "9")}

\* the rule built from the editor's fields
FormRule(name) == PathRule(name, "base", <<"*">>, 0, TRUE, "quarantine", TRUE)

\* mutant: any name is accepted
NameNeverMissing(name) == FALSE

\* `if not name` on the stripped name
NameMissing(name) == name = <<>>

\* _on_toggle_dry
OnToggleDry ==
    /\ cfg' = [cfg EXCEPT !.dry_run = ~cfg.dry_run]
    /\ ui' = [msg |-> IF cfg'.dry_run THEN "Dry run is ON" ELSE "Dry run is OFF",
              n |-> 0]
    /\ UNCHANGED <<send2trash, rules, scan_results, stop, pause, threads,
                   files, dirs, locked, quarantine, qdirs, trash, log,
                   tasks, h, now, fired>>
    /\ UNCHANGED <<rules_file, schedule_file, caches, timers, hid,
                   after_handles, is_shutting_down, close_pc, joined, dialog>>

\* update_rule_from_form with `typed` in the name field and row sel of the
\* rule list selected (0: no selection)
UpdateRuleFromForm(typed, sel) ==
    LET name == StripBlanks(typed) IN
    /\ sel = 0 /\ ~NameMissing(name) => Len(rules) < MaxRules
    /\ IF NameMissing(name)
       THEN /\ ui' = [msg |-> "Rule name required", n |-> 0]
            /\ rules' = rules
       ELSE /\ rules' = IF sel > 0 THEN [rules EXCEPT ![sel] = FormRule(name)]
                        ELSE Append(rules, FormRule(name))
            /\ ui' = [msg |-> "Rule saved", n |-> 0]
    /\ UNCHANGED <<cfg, send2trash, scan_results, stop, pause, threads,
                   files, dirs, locked, quarantine, qdirs, trash, log,
                   tasks, h, now, fired>>
    /\ UNCHANGED <<rules_file, schedule_file, caches, timers, hid,
                   after_handles, is_shutting_down, close_pc, joined, dialog>>

\* mutant: every provider rule is appended
MergeAll(rs, provided) == rs \o provided

\* the loop of add_browser_rules / add_os_rules: a provider rule is appended
\* when no rule of the list, the ones just appended included, has its name
RECURSIVE MergeRules(_, _)
MergeRules(rs, provided) ==
    IF provided = <<>> THEN rs
    ELSE MergeRules(IF \A i \in 1..Len(rs) : rs[i].name # provided[1].name
                    THEN Append(rs, provided[1]) ELSE rs,
                    Tail(provided))

AddProviderRules(provided, toast) ==
    /\ rules' = MergeRules(rules, provided)
    /\ ui' = [msg |-> toast, n |-> Len(rules') - Len(rules)]
    /\ UNCHANGED <<cfg, send2trash, scan_results, stop, pause, threads,
                   files, dirs, locked, quarantine, qdirs, trash, log,
                   tasks, h, now, fired>>
    /\ UNCHANGED <<rules_file, schedule_file, caches, timers, hid,
                   after_handles, is_shutting_down, close_pc, joined, dialog>>

AddBrowserRules == AddProviderRules(BrowserCacheRules, "Added browser rule(s)")

AddOsRules == AddProviderRules(OsSpecificRules, "Added OS rule(s)")

\* save_rules
SaveRules ==
    /\ rules_file' = <<StoreSave(cfg, rules)>>
    /\ ui' = [msg |-> "Rules saved", n |-> 0]
    /\ UNCHANGED <<cfg, send2trash, rules, scan_results, stop, pause, threads,
                   files, dirs, locked, quarantine, qdirs, trash, log,
                   tasks, h, now, fired>>
    /\ UNCHANGED <<schedule_file, caches, timers, hid,
                   after_handles, is_shutting_down, close_pc, joined, dialog>>

\* _add_schedule and SimpleScheduler.add
AddSchedule(name, action, typed) ==
    /\ Len(tasks) < MaxTasks
    /\ tasks' = Append(tasks, Task(name, action, StripBlanks(typed)))
    /\ schedule_file' = <<tasks'>>
    /\ ui' = [msg |-> "Scheduled", n |-> Len(tasks')]
    /\ UNCHANGED <<cfg, send2trash, rules, scan_results, stop, pause, threads,
                   files, dirs, locked, quarantine, qdirs, trash, log,
                   h, now, fired>>
    /\ UNCHANGED <<rules_file, caches, timers, hid,
                   after_handles, is_shutting_down, close_pc, joined, dialog>>

\* mutant: list.pop(idx) with no range check
PopUnchecked(items, idx) ==
    LET i == IF idx < 0 THEN Len(items) + idx + 1 ELSE idx + 1 IN
    IF i \in 1..Len(items)
    THEN SubSeq(items, 1, i - 1) \o SubSeq(items, i + 1, Len(items))
    ELSE items

\* the task list after SimpleScheduler.remove(idx), idx counted from 0
RemoveAt(items, idx) ==
    IF 0 <= idx /\ idx < Len(items)
    THEN SubSeq(items, 1, idx) \o SubSeq(items, idx + 2, Len(items))
    ELSE items

\* _remove_schedule for the row idx: tasks[idx] raises IndexError outside
\* -len..len-1 and nothing further happens; otherwise remove(idx) is called
\* and the toast is shown
RemoveSchedule(idx) ==
    /\ idx \in (0 - Len(tasks))..(Len(tasks) - 1)
    /\ tasks' = RemoveAt(tasks, idx)
    /\ schedule_file' = IF tasks' # tasks THEN <<tasks'>> ELSE schedule_file
    /\ ui' = [msg |-> "Schedule removed", n |-> idx]
    /\ UNCHANGED <<cfg, send2trash, rules, scan_results, stop, pause, threads,
                   files, dirs, locked, quarantine, qdirs, trash, log,
                   h, now, fired>>
    /\ UNCHANGED <<rules_file, caches, timers, hid,
                   after_handles, is_shutting_down, close_pc, joined, dialog>>

\* the application is closed and started again: CleanerApp.__init__ and
\* SimpleScheduler.__init__ read the two documents
Restart ==
    /\ cfg' = StoreLoad(rules_file).cfg
    /\ rules' = StoreLoad(rules_file).rules
    /\ tasks' = LoadSchedules(schedule_file)
    /\ ui' = NoMessage
    /\ UNCHANGED <<send2trash, scan_results, stop, pause, threads,
                   files, dirs, locked, quarantine, qdirs, trash, log,
                   h, now, fired>>
    /\ UNCHANGED <<rules_file, schedule_file, caches, timers, hid,
                   after_handles, is_shutting_down, close_pc, joined, dialog>>

\* the rule documents the application can find at its first start: none, or
\* one written by an earlier save or by hand, with or without the config key
StartDocuments ==
    {<<>>}
    \cup {<<StoreSave(ConfigDefaults, rs)>> :
            rs \in {<<>>, <<FormRule(<<"A">>)>>, <<FormRule(<<"B">>)>>}}
    \cup {<<[rules |-> <<[name |-> <<"O">>, path |-> "mine"]>>]>>}

\* The application just started on one of the start documents, with no
\* schedule document.
InitStore ==
    /\ rules_file \in StartDocuments
    /\ cfg = StoreLoad(rules_file).cfg
    /\ rules = StoreLoad(rules_file).rules
    /\ schedule_file = <<>>
    /\ tasks = LoadSchedules(schedule_file)
    /\ send2trash = FALSE
    /\ scan_results = <<>>
    /\ stop = FALSE
    /\ pause = FALSE
    /\ threads = <<>>
    /\ files = {}
    /\ locked = {}
    /\ dirs = {Base}
    /\ quarantine = {}
    /\ qdirs = {}
    /\ trash = {}
    /\ log = <<>>
    /\ h = FALSE
    /\ now = 0
    /\ fired = <<>>
    /\ ui = NoMessage
    /\ caches = {}
    /\ timers = {}
    /\ hid = 0
    /\ after_handles = {}
    /\ is_shutting_down = FALSE
    /\ close_pc = "idle"
    /\ joined = <<>>
    /\ dialog = <<>>

NextStore ==
    \/ OnToggleDry
    \/ \E typed \in FormNames, sel \in 0..MaxRules :
          sel <= Len(rules) /\ UpdateRuleFromForm(typed, sel)
    \/ SaveRules
    \/ \E name \in {"a"}, action \in {"scan"}, typed \in FormTimes :
          AddSchedule(name, action, typed)
    \/ \E idx \in (0 - MaxTasks - 1)..MaxTasks : RemoveSchedule(idx)
    \/ Restart

SpecStore == InitStore /\ [][NextStore]_vars

\* The rule list under the editor and the two provider buttons alone.
NextRules ==
    \/ \E typed \in FormNames, sel \in 0..MaxRules :
          sel <= Len(rules) /\ UpdateRuleFromForm(typed, sel)
    \/ AddBrowserRules
    \/ AddOsRules

SpecRules == InitStore /\ [][NextRules]_vars

\* ------------------------------ a tick that opens a message box (SpecDialog)
\* _run_action of entry i ends in clean_async's messagebox.showinfo("Run a
\* Scan first."): the box is modal, the call returns when the user has
\* dismissed it
OpensDialog(i) ==
    NormalizeAction(tasks[i].action) = "clean" /\ scan_results = <<>>

\* _tick's `for t in self.tasks` from entry i on, evaluated at time t, up to
\* the first entry whose action opens a message box; blocked is that entry,
\* 0 when the loop ran to its end
RECURSIVE TickLoopModal(_, _, _)
TickLoopModal(i, t, st) ==
    IF i > Len(tasks) THEN st
    ELSE IF Fires(i, t)
    THEN LET run == [st EXCEPT !.fired = Append(@, [i |-> i, at |-> t])] IN
         IF OpensDialog(i) THEN [run EXCEPT !.blocked = i]
         ELSE TickLoopModal(i + 1, t, RunAction(tasks[i].action, run))
    ELSE TickLoopModal(i + 1, t, st)

\* _tick from entry i on, evaluated at time t, the timers in `live` pending
\* and `held` in _h (0: None): either the loop stops in a message box, and
\* no timer is armed, or it ends and the next timer is armed
TickFrom(i, t, live, held) ==
    LET st == TickLoopModal(i, t, [stop |-> stop, threads |-> threads,
                                   fired |-> fired, blocked |-> 0])
        id == FreshHandle(live)
    IN
    /\ stop' = st.stop
    /\ threads' = st.threads
    /\ fired' = st.fired
    /\ IF st.blocked > 0
       THEN /\ dialog' = <<[i |-> st.blocked, at |-> t]>>
            /\ ui' = [msg |-> "Run a Scan first.", n |-> 0]
            /\ h' = (held # 0)
            /\ hid' = held
            /\ timers' = live
            /\ after_handles' = after_handles
       ELSE /\ dialog' = <<>>
            /\ ui' = ui
            /\ h' = TRUE
            /\ hid' = id
            /\ timers' = live \cup {id}
            /\ after_handles' = after_handles \cup {id}
    /\ UNCHANGED <<cfg, send2trash, rules, scan_results, pause, tasks,
                   files, dirs, locked, quarantine, qdirs, trash, log>>
    /\ UNCHANGED <<rules_file, schedule_file, caches,
                   is_shutting_down, close_pc, joined>>

\* SimpleScheduler.start, called once by CleanerApp.__init__
ModalStart ==
    /\ ~h
    /\ fired = <<>>
    /\ dialog = <<>>
    /\ now' = now
    /\ TickFrom(1, now, CancelHandle, 0)

\* a pending timer runs _tick on the idle main thread
ModalTick ==
    /\ dialog = <<>>
    /\ \E id \in timers, j \in 0..MaxJitter :
          /\ now + TickSeconds + j <= MaxClock
          /\ now' = now + TickSeconds + j
          /\ TickFrom(1, now + TickSeconds + j, timers \ {id}, hid)

\* the user dismisses the message box: showinfo returns and the _tick call
\* that opened it goes on with its next entry
DismissDialog ==
    /\ dialog # <<>>
    /\ now' = now
    /\ TickFrom(dialog[1].i + 1, dialog[1].at, timers, hid)

\* the message box stays open for another polling interval
DialogStaysOpen ==
    /\ dialog # <<>>
    /\ now + TickSeconds <= MaxClock
    /\ now' = now + TickSeconds
    /\ UNCHANGED <<cfg, send2trash, rules, scan_results, stop, pause, threads,
                   files, dirs, locked, quarantine, qdirs, trash, log>>
    /\ UNCHANGED <<tasks, h, fired, hostvars>>

NextDialog ==
    \/ ModalStart
    \/ ModalTick
    \/ DismissDialog
    \/ DialogStaysOpen

SpecDialog == InitSched /\ [][NextDialog]_vars

\* ------------------------------- Cancel during a pause (SpecStopPaused)
\* Cancel is clicked while the engine is paused and a worker is inside
\* wait_if_paused
StopWhilePaused ==
    /\ pause
    /\ \E t \in Threads : threads[t].pc \in WaitPcs
    /\ CancelOps

\* A clean worker has just been started, dry-run off, on the results of a
\* scan that listed the files 1..ActFiles, and the user has clicked Pause.
InitStopPaused ==
    /\ \E qe \in BOOLEAN, hro \in BOOLEAN, total \in 0..MaxCap :
          cfg = AppConfig(FALSE, qe, FALSE, NFiles, total, hro)
    /\ send2trash \in BOOLEAN
    /\ \E action \in ActionType :
          /\ rules = <<Rule1(action), Rule2>>
          /\ scan_results =
                <<ScanResult(Rule1(action), Range(1, ActFiles - 1), 0),
                  ScanResult(Rule2, Range(ActFiles, ActFiles), 0)>>
    /\ stop = FALSE
    /\ pause = TRUE
    /\ threads = <<Worker("clean", "c_res")>>
    /\ files = 1..ActFiles
    /\ locked = {}
    /\ dirs = AllDirs
    /\ quarantine = {}
    /\ qdirs = {}
    /\ trash = {}
    /\ log = <<>>
    /\ tasks = <<>>
    /\ h = FALSE
    /\ now = 0
    /\ fired = <<>>
    /\ HostInit

NextStopPaused ==
    \/ PauseResume
    \/ StopWhilePaused
    \/ \E t \in Threads : CleanRes(t)
    \/ \E t \in Threads : ActFile(t)
    \/ \E t \in Threads : ActOnFile(t)
    \/ \E t \in Threads : CleanupStart(t)
    \/ \E t \in Threads : DirCheck(t)
    \/ \E t \in Threads : RemoveIfEmpty(t)
    \/ \E t \in Threads : WaitIfPaused(t)

SpecStopPaused == InitStopPaused /\ [][NextStopPaused]_vars

\* ------------------------------------------------------------------ claims

\* C1: under dry-run no step of act_on_files or cleanup_empty_dirs changes
\* the filesystem (files, directories, quarantine area, trash), and
\* act_on_files counts every file it has iterated as acted.
DryRunLeavesFilesystem ==
    [][cfg.dry_run =>
         /\ fsvars' = fsvars
         /\ \A t \in Threads :
               threads'[t].deleted_files = threads'[t].ci - 1]_vars

\* C1 witness: a dry run that ended after counting every scanned file,
\* among them a missing and a locked one
DryRunWitness ==
    /\ cfg.dry_run
    /\ ~stop
    /\ threads[1].pc = "done"
    /\ threads[1].deleted_total = ActFiles
    /\ files # 1..ActFiles
    /\ locked # {}

\* C5: in one act_on_files call deleted_files never exceeds
\* max_total_delete, and the step that finds the cap reached leaves the
\* loop without touching the filesystem or the log.
TotalCapRespected ==
    [][\A t \in Threads :
         LET w == threads[t]
             w2 == threads'[t]
         IN  /\ w2.deleted_files <= cfg.max_total_delete
             /\ (w.pc = "a_act" /\ w2 # w
                   /\ w.deleted_files >= cfg.max_total_delete)
                => (w2.pc = "c_cleanup" /\ fsvars' = fsvars /\ log' = log)]_vars

\* C5 witness: the loop was left at the cap with a file still to act on,
\* and that file is still in place
TotalCapWitness ==
    \E t \in Threads :
        LET w == threads[t] IN
        /\ w.pc = "c_cleanup"
        /\ ~stop
        /\ ~cfg.dry_run
        /\ cfg.max_total_delete >= 1
        /\ w.deleted_files = cfg.max_total_delete
        /\ w.ci <= Len(w.snap)
        /\ w.snap[w.ci] \in files

PerRuleCapRespected ==
    \A i \in 1..Len(scan_results) :
        Len(scan_results[i].files) <= cfg.max_delete_per_rule

\* C2 (as stated): once the stop flag is set, no later step clears it.
StopNeverCleared == [][stop => stop']_vars

\* C2 (amended): a step clears the stop flag only by starting a new scan or
\* clean worker (scan_async, clean_async); stop(), the pause toggle and the
\* workers' own steps leave a set stop flag set.
StopClearedOnlyByStart ==
    [][(stop /\ ~stop') =>
         /\ Len(threads') = Len(threads) + 1
         /\ threads'[Len(threads')].pc \in {"s_clear", "c_res"}]_vars

\* C2 witness: stop was requested with a worker started, then pause was
\* toggled, and the stop flag is still set
StopSurvivesPause == stop /\ pause /\ threads # <<>>

\* C3: at most one scan worker and at most one clean worker is alive.
OneWorkerPerKind ==
    \A k \in {"scan", "clean"} :
        Cardinality({t \in Threads :
                        threads[t].kind = k /\ threads[t].pc # "done"}) <= 1

\* C10: a worker at its wait_if_paused call stays there, changing nothing,
\* while pause is set and stop is not; the filesystem changes in no step
\* taken by a worker from its wait; stop() leaves pause clear; and no worker
\* stays in the wait forever while pause is clear or stop is set.
PauseSemantics ==
    /\ [][\A t \in Threads :
            (threads[t].pc \in WaitPcs /\ pause /\ ~stop)
               => threads'[t] = threads[t]]_vars
    /\ [][\A t \in Threads :
            (threads[t].pc \in WaitPcs /\ threads'[t] # threads[t])
               => (fsvars' = fsvars /\ scan_results' = scan_results)]_vars
    /\ [][(~stop /\ stop') => ~pause']_vars
    /\ \A t \in 1..2 :
          []<>~(/\ t \in Threads
                /\ threads[t].pc \in WaitPcs
                /\ (~pause \/ stop))

\* C10 witness: a clean worker that has acted on a file is blocked in the
\* wait for its next file
PauseWitness ==
    \E t \in Threads :
        /\ threads[t].pc = "a_wait"
        /\ threads[t].ci > 1
        /\ pause
        /\ ~stop

\* the entries of `fired` for schedule entry i
FiringsOf(f, i) == {k \in 1..Len(f) : f[k].i = i}

\* the second of the day named by the well-formed time strings of TaskLists
TargetSecond(time) ==
    CASE time = T0230 -> 2 * 3600 + 30 * 60
      [] time = <<"2", ":", "3", "0">> -> 2 * 3600 + 30 * 60
      [] time = T0231 -> 2 * 3600 + 31 * 60
      [] time = <<" ", "2", ":", "+", "3", "1">> -> 2 * 3600 + 31 * 60

WellFormedTimes ==
    {T0230, <<"2", ":", "3", "0">>, T0231, <<" ", "2", ":", "+", "3", "1">>}

\* the time strings of TaskLists that are not two integers around one ":"
\* or are out of range
MalformedTimes ==
    {<<"0", "2", "3", "0">>, Chars("2", "4", "3", "0"), Chars("0", "2", "6", "0"),
     <<"0", "2", ":", "3", "0", ":", "0", "0">>, <<"-", "2", ":", "3", "0">>,
     <<"a", "b", ":", "3", "0">>, <<>>, <<"0", "2", ":">>}

\* whether the step is a run of _tick
TickStep == now' # now \/ h' # h

\* entry i is fired by the tick of this step exactly when the tick's time is
\* in the 30 s from the entry's target on
FiresIffInWindow(i) ==
    (\E k \in FiringsOf(fired', i) : fired'[k].at = now')
       <=> /\ TargetSecond(tasks[i].time) <= now' % DaySeconds
           /\ now' % DaySeconds < TargetSecond(tasks[i].time) + 30

\* C6: no schedule entry is fired twice on one day.
FiresAtMostOncePerDay ==
    \A i \in 1..Len(tasks) :
        \A k1, k2 \in FiringsOf(fired, i) :
            fired[k1].at \div DaySeconds = fired[k2].at \div DaySeconds
               => k1 = k2

\* C7: a tick at time `now` fires a well-formed entry iff
\* target <= now < target + 30 s.
TickFiringRule ==
    [][TickStep =>
         \A i \in 1..Len(tasks) :
             tasks[i].time \in WellFormedTimes => FiresIffInWindow(i)]_vars

\* C7 witness: the entry at 02:30 was fired by the tick at 02:30:10, and the
\* clock has passed 02:31:00 with no firing after the window
TickFiringWitness ==
    /\ now >= 2 * 3600 + 31 * 60
    /\ \E k \in 1..Len(fired) :
          /\ fired[k].at = 2 * 3600 + 30 * 60 + 10
          /\ tasks[fired[k].i].time = T0230
          /\ \A k2 \in FiringsOf(fired, fired[k].i) :
                fired[k2].at < 2 * 3600 + 30 * 60 + 30

\* C8: a tick fires no entry whose time string is malformed, still fires
\* the well-formed entries before and after it by the window rule, and
\* leaves the timer armed.
MalformedSkipped ==
    [][TickStep =>
         /\ h'
         /\ \A i \in 1..Len(tasks) :
               tasks[i].time \in MalformedTimes => FiringsOf(fired', i) = {}
         /\ (\E i \in 1..Len(tasks) : tasks[i].time \in MalformedTimes)
               => \A j \in 1..Len(tasks) :
                     tasks[j].time \in WellFormedTimes => FiresIffInWindow(j)]_vars

\* C8 witness: in one tick an entry before and an entry after a malformed
\* one were fired, and the timer is armed
MalformedWitness ==
    /\ h
    /\ \E i, j, m \in 1..Len(tasks) :
          /\ i < m /\ m < j
          /\ tasks[m].time \in MalformedTimes
          /\ \E k1 \in FiringsOf(fired, i), k2 \in FiringsOf(fired, j) :
                fired[k1].at = fired[k2].at

\* the number of candidates the rglob loops of enumerate_rule yield for the
\* first n patterns of rule
RECURSIVE CandidateCount(_, _)
CandidateCount(rule, n) ==
    IF n = 0 THEN 0
    ELSE CandidateCount(rule, n - 1) + Len(Rglob(rule.patterns[n]))

\* C11: while the stop flag is set enumerate_rule takes up no new candidate
\* (only the one already past the stop check is still processed), and the
\* stop check that finds a candidate left returns the partial result, which
\* holds fewer files than there are candidates.
StopEndsEnumeration ==
    [][\A t \in Threads :
         LET w == threads[t]
             w2 == threads'[t]
         IN  /\ (stop /\ w2.pc = "e_wait") => w.pc = "e_wait"
             /\ (stop /\ w.pc = "e_file" /\ w.ci <= Len(w.cands) /\ w2 # w)
                => /\ scan_results' =
                         Append(scan_results, ScanResult(w.rule, w.res, w.res_size))
                   /\ w2.pc = "s_rule"
                   /\ Len(w.res) < CandidateCount(w.rule, Len(w.rule.patterns))]_vars

\* C11 witness: with four candidate files, no filter and the cap not
\* reached, stop has cut the enumeration after its first file
StopEnumerationWitness ==
    /\ stop
    /\ files = FileIds
    /\ cfg.follow_symlinks
    /\ cfg.max_delete_per_rule = MaxCap
    /\ Len(scan_results) = 1
    /\ scan_results[1].rule.patterns = <<"*">>
    /\ scan_results[1].rule.min_age_days = 0
    /\ Len(scan_results[1].files) = 1

\* whether the step is thread t's act_on_files acting on a file with
\* success, dry-run off
Acted(t) ==
    /\ threads[t].pc = "a_act"
    /\ threads'[t].pc = "a_file"
    /\ threads'[t].deleted_files = threads[t].deleted_files + 1
    /\ ~cfg.dry_run

\* the place under QUARANTINE_DIR for file p of rule: the rule's name, then
\* the directories between the base and the file, then the file's name
QuarantinePlace(p, rule) ==
    [rule |-> rule.name, dir |-> FDir(p), f |-> p, ext |-> FExt(p)]

\* C12: a file acted on with the effective action quarantine is, after the
\* step, under the quarantine root at <rule name>/<relative directory>/<file
\* name>, in a directory made for it, at no other place of the quarantine
\* area or the trash, and no longer at its original path.
QuarantineRoundTrip ==
    [][\A t \in Threads :
         LET w == threads[t]
             p == w.snap[w.ci]
         IN  (Acted(t) /\ ResolveAction(w.rule) = "quarantine"
                /\ cfg.quarantine_enabled)
             => /\ QuarantinePlace(p, w.rule) \in quarantine'
                /\ quarantine' \ quarantine \subseteq {QuarantinePlace(p, w.rule)}
                /\ <<w.rule.name, FDir(p)>> \in qdirs'
                /\ p \in files
                /\ files' = files \ {p}
                /\ trash' = trash]_vars

\* C12 witness: a file of the base directory and a file of the
\* sub-directory are in quarantine, each under its rule and directory
QuarantineWitness ==
    /\ ~cfg.hard_recycle_only
    /\ \E q1, q2 \in quarantine :
          /\ q1.rule = "R1" /\ q1.dir = Base /\ q1.f \notin files
          /\ q2.rule = "R2" /\ q2.dir = SubDir /\ q2.f \notin files

\* C13: a file acted on with the effective action recycle while send2trash
\* is absent is deleted: gone from its path, and neither in the quarantine
\* area nor in the trash.
RecycleFallbackDeletes ==
    [][\A t \in Threads :
         LET w == threads[t]
             p == w.snap[w.ci]
         IN  (Acted(t) /\ ResolveAction(w.rule) = "recycle" /\ ~send2trash)
             => /\ p \notin files'
                /\ quarantine' = quarantine
                /\ qdirs' = qdirs
                /\ trash' = trash]_vars

\* C14: with quarantine_enabled off (dry-run off) the quarantine area stays
\* empty, no directory is made in it, and a file acted on under a rule
\* whose action is quarantine, hard_recycle_only off, is deleted.
QuarantineDisabledDeletes ==
    /\ []((~cfg.quarantine_enabled /\ ~cfg.dry_run)
            => (quarantine = {} /\ qdirs = {}))
    /\ [][\A t \in Threads :
            LET w == threads[t]
                p == w.snap[w.ci]
            IN  (Acted(t) /\ ~cfg.quarantine_enabled /\ ~cfg.hard_recycle_only
                   /\ w.rule.action = "quarantine")
                => /\ files' = files \ {p}
                   /\ trash' = trash
                   /\ quarantine' = quarantine
                   /\ qdirs' = qdirs]_vars

\* C14 witness: the file of the quarantine rule R2 existed when it was
\* acted on and is gone, with nothing in quarantine or trash
QuarantineDisabledWitness ==
    /\ ~cfg.quarantine_enabled /\ ~cfg.hard_recycle_only /\ ~cfg.dry_run
    /\ threads[1].rule = Rule2
    /\ threads[1].pc = "a_file"
    /\ threads[1].deleted_files = 1
    /\ threads[1].freed_bytes > 0
    /\ ActFiles \notin files
    /\ quarantine = {} /\ qdirs = {} /\ trash = {}

\* C15: in a run with hard_recycle_only set (dry-run off) no file is in
\* the quarantine area.
HardRecycleNeverQuarantines ==
    (cfg.hard_recycle_only /\ ~cfg.dry_run) => quarantine = {}

\* C16: under a rule with min_age_days > 0 a candidate is appended only if
\* it can be read and its mtime is strictly below now - min_age_days days,
\* so no result holds a file written at or after that cutoff; with
\* min_age_days = 0 a candidate that is no directory, not seen before and
\* no skipped symlink is appended whatever its mtime.
AgeFilter ==
    /\ [](\A i \in 1..Len(scan_results) :
            LET r == scan_results[i] IN
            r.rule.min_age_days > 0 =>
               \A k \in 1..Len(r.files) :
                  FMtime(r.files[k]) < Now - r.rule.min_age_days * DaySeconds)
    /\ [][\A t \in Threads :
            LET w == threads[t]
                w2 == threads'[t]
                p == w.cands[w.ci]
                appended == w2.res = Append(w.res, p)
            IN  (w.pc = "e_add" /\ w2 # w) =>
                 /\ (w.rule.min_age_days > 0 /\ appended)
                       => /\ p \in files
                          /\ FMtime(p) < Now - w.rule.min_age_days * DaySeconds
                 /\ (w.rule.min_age_days = 0 /\ p > 0 /\ p \notin SeqSet(w.res)
                       /\ (cfg.follow_symlinks \/ ~IsSymlink(p)))
                       => appended]_vars

\* C16 witness: a scan with min_age_days = 1 ended with an empty result
\* although the file written now and the file written exactly a day ago
\* exist, and the two-day-old file was a candidate but was removed before
\* its mtime was read
AgeFilterWitness ==
    /\ ~stop
    /\ Len(scan_results) = 1
    /\ scan_results[1].rule.min_age_days = 1
    /\ scan_results[1].rule.patterns = <<"*">>
    /\ scan_results[1].files = <<>>
    /\ {1, 2} \subseteq files
    /\ 3 \notin files
    /\ 3 \in SeqSet(threads[1].cands)

\* the enumeration steps of a worker
EnumPcs == {"e_pat", "e_file", "e_wait", "e_add"}

\* C17: the result of a disabled rule or of a rule whose base does not
\* exist is empty with total_size 0, and no worker is ever inside the
\* enumeration loops (rglob, the per-entry tests) for such a rule.
DisabledOrMissingEmpty ==
    /\ \A i \in 1..Len(scan_results) :
          LET r == scan_results[i] IN
          (~r.rule.enabled \/ r.rule.path = "nobase")
             => (r.files = <<>> /\ r.total_size = 0)
    /\ \A t \in Threads :
          threads[t].pc \in EnumPcs
             => (threads[t].rule.enabled /\ threads[t].rule.path = "base")

\* C17 witness: the scan of a disabled rule ended with an empty result while
\* every file exists under its base
DisabledWitness ==
    /\ ~stop
    /\ threads[1].pc = "done"
    /\ Len(scan_results) = 1
    /\ ~scan_results[1].rule.enabled
    /\ scan_results[1].rule.path = "base"
    /\ scan_results[1].files = <<>>
    /\ files = FileIds

\* C18: no step of a scan changes the filesystem, and when the same rule
\* was enumerated twice without stop the two results hold the same set of
\* files and the same total_size.
EnumerationIdempotent ==
    /\ [][fsvars' = fsvars /\ locked' = locked]_vars
    /\ []((Len(scan_results) = 2 /\ ~stop)
            => /\ SeqSet(scan_results[1].files) = SeqSet(scan_results[2].files)
               /\ scan_results[1].total_size = scan_results[2].total_size)

\* C18 witness: two enumerations of the rule ended without stop, each with
\* two files
IdempotentWitness ==
    /\ ~stop
    /\ Len(scan_results) = 2
    /\ Len(scan_results[1].files) = 2
    /\ Len(scan_results[2].files) = 2
    /\ threads[1].pc = "done"

\* the sum of the sizes of the files in S
RECURSIVE SizeSum(_)
SizeSum(S) ==
    IF S = {} THEN 0
    ELSE LET f == CHOOSE x \in S : TRUE IN FSize(f) + SizeSum(S \ {f})

\* C19: in every result, and in the result a worker is building, no path
\* occurs twice, every entry is a file and not a directory, and total_size
\* is the sum of the sizes of the distinct files.
NoDuplicates ==
    /\ \A i \in 1..Len(scan_results) :
          LET r == scan_results[i] IN
          /\ Cardinality(SeqSet(r.files)) = Len(r.files)
          /\ \A k \in 1..Len(r.files) : r.files[k] > 0
          /\ r.total_size = SizeSum(SeqSet(r.files))
    /\ \A t \in Threads :
          /\ Cardinality(SeqSet(threads[t].res)) = Len(threads[t].res)
          /\ threads[t].res_size = SizeSum(SeqSet(threads[t].res))

\* C19 witness: under the patterns "*", "*" the second pass met both files
\* again and the result holds each once
NoDuplicatesWitness ==
    /\ ~stop
    /\ threads[1].pc = "done"
    /\ Len(scan_results) = 1
    /\ scan_results[1].rule.patterns = <<"*", "*">>
    /\ scan_results[1].rule.min_age_days = 0
    /\ cfg.max_delete_per_rule = MaxCap
    /\ files = {1, 2}
    /\ scan_results[1].files = <<1, 2>>
    /\ scan_results[1].total_size = FSize(1) + FSize(2)

\* C20: with follow_symlinks off no result, finished or under construction,
\* holds a symbolic link.
NoSymlinkListed ==
    ~cfg.follow_symlinks =>
       /\ \A i \in 1..Len(scan_results) :
             \A k \in 1..Len(scan_results[i].files) :
                ~FIsLink(scan_results[i].files[k])
       /\ \A t \in Threads :
             \A k \in 1..Len(threads[t].res) : ~FIsLink(threads[t].res[k])

\* C20 witness: a full scan with follow_symlinks off listed the regular
\* file and left out the symbolic link beside it
NoSymlinkWitness ==
    /\ ~cfg.follow_symlinks
    /\ ~stop
    /\ threads[1].pc = "done"
    /\ Len(scan_results) = 1
    /\ scan_results[1].rule.patterns = <<"*">>
    /\ scan_results[1].rule.min_age_days = 0
    /\ cfg.max_delete_per_rule = MaxCap
    /\ files = {3, 4}
    /\ FIsLink(4)
    /\ scan_results[1].files = <<3>>

\* C30: the scheduler is idle (_h is None, no _tick timer pending) or armed
\* (_h holds the one pending _tick timer); a step that leaves _h set
\* (start, tick) leaves exactly one timer pending, a step that clears _h
\* (stop) leaves none, and from idle the clock does not advance by a tick.
SchedulerStateMachine ==
    /\ [](/\ Cardinality(timers) <= 1
          /\ h <=> timers # {}
          /\ h => timers = {hid})
    /\ [][/\ h' => (Cardinality(timers') = 1 /\ hid' \in timers')
          /\ ~h' => timers' = {}
          /\ ~h => now' = now]_vars

\* C30 witness: start() was called again at the clock reading of an earlier
\* start or tick (the entry in its window was fired twice at that reading),
\* and one timer is pending
SchedulerWitness ==
    /\ h
    /\ Cardinality(timers) = 1
    /\ \E k1, k2 \in 1..Len(fired) :
          k1 < k2 /\ fired[k1].i = fired[k2].i /\ fired[k1].at = fired[k2].at

\* C28: the step that destroys the root window finds every _tick timer
\* cancelled and one join made for every registered thread; once the window
\* is closed a further on_close changes nothing; and from the moment
\* on_close has set its flag no tick runs (the clock of the scheduler and
\* its firings stay as they are).
ShutdownOrdering ==
    [][/\ (close_pc # "closed" /\ close_pc' = "closed")
            => /\ timers = {}
               /\ after_handles = {}
               /\ Len(joined) = Len(threads)
               /\ is_shutting_down
       /\ close_pc = "closed"
            => UNCHANGED <<close_pc, joined, timers, after_handles,
                           is_shutting_down>>
       /\ is_shutting_down
            => (is_shutting_down' /\ now' = now /\ fired' = fired
                  /\ Len(threads') = Len(threads))]_vars

\* C28 witness: the window was closed after a tick had started a purge
\* worker; the join of the ended clean worker returned and the join of the
\* purge worker timed out
ShutdownWitness ==
    /\ close_pc = "closed"
    /\ fired # <<>>
    /\ joined = <<"ended", "timeout">>
    /\ timers = {}

\* C29: while a clean worker is iterating scan_results no step clears or
\* appends to that list, and while a scan worker is iterating the rule list
\* no step changes it.
NoSharedListRace ==
    [][/\ (\E t \in Threads :
              threads[t].kind = "clean" /\ threads[t].pc # "done")
            => scan_results' = scan_results
       /\ (\E t \in Threads :
              threads[t].kind = "scan" /\ threads[t].pc \notin {"s_clear", "done"})
            => rules' = rules]_vars

\* the entries of directory d: its files and, for the base, its
\* sub-directories
EntriesOf(d) ==
    {f \in files : FDir(f) = d} \cup (IF d = Base THEN dirs \ {Base} ELSE {})

\* C27: no step of the cleanup removes a file or a directory that has an
\* entry, under dry-run no directory is removed at all, and a cleanup that
\* ran to its end without stop (dry-run off) leaves only directories that
\* hold an entry or cannot be removed: the directories emptied by the
\* removal of their sub-directories are gone too.
CleanupRemovesEmptyDirs ==
    /\ [][/\ files' = files
          /\ dirs' \subseteq dirs
          /\ \A d \in dirs \ dirs' : EntriesOf(d) = {} /\ d \notin locked
          /\ cfg.dry_run => dirs' = dirs]_vars
    /\ []((/\ ~stop
           /\ ~cfg.dry_run
           /\ \A t \in Threads : threads[t].pc = "done")
          => \A d \in dirs : EntriesOf(d) # {} \/ d \in locked)

\* C27 witness: the walk went on after the rmdir of the empty SubDir had
\* failed and removed EmptyDir; the base holding SubDir is left
CleanupWitness ==
    /\ ~stop
    /\ ~cfg.dry_run
    /\ threads[1].pc = "done"
    /\ SubDir \in locked
    /\ files = {}
    /\ dirs = {Base, SubDir}
    /\ threads[1].dq = <<SubDir, EmptyDir, Base>>

\* the cache directories each helper knows
KnownCaches(kind) ==
    CASE kind = "purge_pip" -> {"pip"}
      [] kind = "purge_npm" -> {"npm", "cache_npm"}

\* C26: a started purge helper can always run, whatever dry_run, stop and
\* pause are; its run removes every known cache directory that exists,
\* logs how many there were, and leaves the configuration, the rule list,
\* the scan results, the stop and pause flags and the cleaned tree alone.
PurgeUnconditional ==
    /\ [](\A t \in Threads : threads[t].pc = "p_run" => ENABLED PurgeRun(t))
    /\ [][\A t \in Threads :
            (threads[t].pc = "p_run" /\ threads'[t].pc = "done")
            => /\ caches' = caches \ KnownCaches(threads[t].kind)
               /\ log' = Append(log,
                     [purge |-> threads[t].kind,
                      removed |-> Cardinality(caches \cap KnownCaches(threads[t].kind))])
               /\ UNCHANGED <<cfg, rules, scan_results, stop, pause, fsvars>>]_vars

\* C26 witness: with dry-run on and the stop and pause flags set, the npm
\* helper has removed both of its directories and logged the count 2
PurgeWitness ==
    /\ cfg.dry_run /\ stop /\ pause
    /\ caches \cap {"npm", "cache_npm"} = {}
    /\ \E k \in 1..Len(log) : log[k] = [purge |-> "purge_npm", removed |-> 2]

SchedulePersisted ==
    /\ [](LoadSchedules(schedule_file) = tasks)
    /\ [][/\ tasks' # tasks =>
               /\ schedule_file' = <<tasks'>>
               /\ \/ /\ ui'.msg = "Scheduled"
                     /\ Len(tasks') = Len(tasks) + 1
                     /\ SubSeq(tasks', 1, Len(tasks)) = tasks
                  \/ /\ ui'.msg = "Schedule removed"
                     /\ ui'.n \in 0..(Len(tasks) - 1)
                     /\ tasks' = [i \in 1..(Len(tasks) - 1) |->
                                    IF i <= ui'.n THEN tasks[i] ELSE tasks[i + 1]]
          /\ ui'.msg = "Schedule removed" /\ ui'.n \notin 0..(Len(tasks) - 1) =>
               /\ tasks' = tasks
               /\ schedule_file' = schedule_file]_vars

\* C22 witness: a remove that named the row -1 has left the task and the
\* document that holds it in place
SchedulePersistedWitness ==
    /\ ui = [msg |-> "Schedule removed", n |-> 0 - 1]
    /\ Len(tasks) >= 1
    /\ schedule_file = <<tasks>>

\* C23: no rule of the list has an empty name or a name with blanks
\* around it, and a step that shows "Rule name required" leaves the rule
\* list as it was.
RuleNameRequired ==
    /\ [](\A i \in 1..Len(rules) :
            rules[i].name # <<>> /\ StripBlanks(rules[i].name) = rules[i].name)
    /\ [][ui'.msg = "Rule name required" => rules' = rules]_vars

\* C23 witness: the error is on the screen over a list of two rules
RuleNameWitness ==
    /\ ui.msg = "Rule name required"
    /\ Len(rules) = 2

\* C24: every entry of the schedule list has a time that parses as HH:MM
\* with the hour in 0..23 and the minute in 0..59.
ScheduleTimesWellFormed ==
    \A i \in 1..Len(tasks) : ParseTime(tasks[i].time).ok

\* C25: a merge keeps the rules it found, unchanged and in place, appends
\* provider rules only, each under a name the list did not have and no two
\* under one name, reports the number appended, leaves every provider name
\* in the list, and appends nothing when every provider name was there.
MergeIdempotent ==
    [][ui'.msg \in {"Added browser rule(s)", "Added OS rule(s)"} =>
        LET provided == IF ui'.msg = "Added browser rule(s)"
                        THEN BrowserCacheRules ELSE OsSpecificRules
            old == Len(rules)
        IN  /\ Len(rules') >= old
            /\ SubSeq(rules', 1, old) = rules
            /\ ui'.n = Len(rules') - old
            /\ \A j \in (old + 1)..Len(rules') :
                 /\ \E k \in 1..Len(provided) : rules'[j] = provided[k]
                 /\ \A i \in 1..Len(rules') : i # j => rules'[i].name # rules'[j].name
            /\ \A k \in 1..Len(provided) :
                 \E i \in 1..Len(rules') : rules'[i].name = provided[k].name
            /\ (\A k \in 1..Len(provided) :
                  \E i \in 1..old : rules[i].name = provided[k].name)
               => rules' = rules /\ ui'.n = 0]_vars

\* C25 witness: the browser merge found the editor's rule B in the list,
\* added nothing and left that rule as it was, after a merge that had
\* appended both OS rules
MergeWitness ==
    /\ ui = [msg |-> "Added browser rule(s)", n |-> 0]
    /\ Len(rules) = 3
    /\ rules[1] = FormRule(<<"B">>)
    /\ rules[2] = OsSpecificRules[1]
    /\ rules[3] = OsSpecificRules[2]

\* C31: no _tick call is ever waiting for the user: every tick that runs
\* returns and arms the next timer without any user interaction.
TickNeverWaits == dialog = <<>>

\* C32: once stop was set while a worker was waiting in its pause wait, no
\* file is deleted, moved to the quarantine or handed to the recycle bin.
NoActionAfterStopInPause ==
    [][stop => files' = files /\ quarantine' = quarantine /\ trash' = trash]_vars

\* C33: a stop request stays in force as long as a worker is running: every
\* worker that runs while stop is set was running when Cancel was clicked
\* (a later start would have cleared the flag), and the flag is the only
\* way it learns of the request at its next check point.
CancelReachesWorkers ==
    [][(stop /\ \E t \in Threads : threads[t].pc # "done") => stop']_vars

\* C34: no two rules of the working rule set have the same name.
RuleNamesUnique ==
    \A i, j \in 1..Len(rules) : i # j => rules[i].name # rules[j].name

\* C35: over one clean run the files acted on, summed over all ScanResults
\* (those of the finished ones and those of the one in work), never exceed
\* max_total_delete.
RunWideCapRespected ==
    \A t \in Threads :
        threads[t].kind = "clean" =>
            threads[t].deleted_total
              + (IF threads[t].pc \in {"a_file", "a_wait", "a_act", "c_cleanup"}
                 THEN threads[t].deleted_files ELSE 0)
            <= cfg.max_total_delete

\* C36: no step of the cleanup removes the rule's base directory itself.
CleanupKeepsBase ==
    [][(Base \in dirs) => (Base \in dirs')]_vars

\* C37: with dry-run off, the step of act_on_files on a listed file that
\* no longer exists leaves the count of files acted on and the bytes freed
\* as they were.
StaleEntryNotCounted ==
    [][\A t \in Threads :
         (/\ ~cfg.dry_run
          /\ threads[t].pc = "a_act"
          /\ threads[t].snap[threads[t].ci] \notin files)
         => /\ threads'[t].deleted_files = threads[t].deleted_files
            /\ threads'[t].freed_bytes = threads[t].freed_bytes]_vars
====
